---- MODULE Spec2Model ----
(***************************************************************************)
(* Model of the Markdown <-> task transducer of markdown-kanban:           *)
(*   shared/eol            detectEol / splitLines / joinLines              *)
(*   MarkdownParser        parse (walk of the remark block tree)           *)
(*   TaskLineEditor        title / status / metadata line edits            *)
(*   MarkdownSerializer    applyEdit (create, update, move, delete)        *)
(*                                                                         *)
(* A text is a sequence of tokens: the content of a non-empty line, or a   *)
(* line terminator (LF or CRLF).  A line content is a record               *)
(*   [k, ind, a, b]                                                        *)
(*   k = "head"    ATX heading        ind = level, a = heading text        *)
(*   k = "task"    "- [a] b"          ind = leading spaces, a = box char   *)
(*   k = "startask" "* [a] b"         the same with the bullet "*"         *)
(*   k = "meta"    "- a: b"           ind = leading spaces                 *)
(*   k = "bullet"  "- a"              ind = leading spaces                 *)
(*   k = "fence"   "```"              ind = leading spaces                 *)
(*   k = "quotetask" "> - [a] b"      a checkbox item in a block quote     *)
(*   k = "blank"   the empty line (only in line arrays, never a token)     *)
(*   k = "fmdelim" "---"              frontmatter delimiter                *)
(*   k = "yaml"    "a: b"             a line of YAML, ind = leading spaces *)
(*   k = "yamlbad" a line the YAML parser rejects, such as "a: [b"         *)
(***************************************************************************)
EXTENDS Integers, Sequences, FiniteSets, TLC

\* ---------------------------------------------------------------- bounds
MaxBlocks == 2
MaxDeletes == 2
MaxEditBlocks == 2
MaxEdits == 2
MaxSeqBlocks == 2
MaxParseBlocks == 2
MaxHandlers == 2
MaxItemBlocks == 2
MaxLineBlocks == 2

\* ------------------------------------------------------------ line tokens
Blank == [k |-> "blank", ind |-> 0, a |-> "", b |-> ""]
Fence == [k |-> "fence", ind |-> 0, a |-> "", b |-> ""]
LF == [k |-> "eol", ind |-> 0, a |-> "LF", b |-> ""]
CRLF == [k |-> "eol", ind |-> 0, a |-> "CRLF", b |-> ""]

HeadingLine(level, text) == [k |-> "head", ind |-> level, a |-> text, b |-> ""]

TaskLine(indent, box, title) == [k |-> "task", ind |-> indent, a |-> box, b |-> title]

\* a GFM task list item whose bullet is "*"
StarTaskLine(indent, box, title) == [k |-> "startask", ind |-> indent, a |-> box, b |-> title]

MetaLine(indent, key, value) == [k |-> "meta", ind |-> indent, a |-> key, b |-> value]

FenceAt(indent) == [k |-> "fence", ind |-> indent, a |-> "", b |-> ""]

QuoteTaskLine(indent, box, title) ==
    [k |-> "quotetask", ind |-> indent, a |-> box, b |-> title]

FmDelim == [k |-> "fmdelim", ind |-> 0, a |-> "", b |-> ""]

YamlLine(indent, key, value) == [k |-> "yaml", ind |-> indent, a |-> key, b |-> value]

YamlBad == [k |-> "yamlbad", ind |-> 0, a |-> "", b |-> ""]

Bullet(indent, text) == [k |-> "bullet", ind |-> indent, a |-> text, b |-> ""]

IsEol(tok) == tok.k = "eol"

\* ------------------------------------------------------------ shared/eol
\* mutant of DetectEol: the CRLF test is dropped
DetectEolAlwaysLf(text) == LF

\* detectEol: CRLF as soon as the text contains one CRLF, LF otherwise.
DetectEol(text) ==
    IF \E i \in 1..Len(text) : text[i] = CRLF THEN CRLF ELSE LF

LineOf(seg) == IF seg = <<>> THEN Blank ELSE seg[1]

\* the lines of text from position i on, seg being the part of the first of
\* them that lies before i
RECURSIVE SplitFrom(_, _, _)
SplitFrom(text, i, seg) ==
    IF i > Len(text) THEN <<LineOf(seg)>>
    ELSE IF IsEol(text[i]) THEN <<LineOf(seg)>> \o SplitFrom(text, i + 1, <<>>)
    ELSE SplitFrom(text, i + 1, Append(seg, text[i]))

\* splitLines: text.split(/\r?\n/); n terminators give n + 1 lines.
SplitLines(text) == SplitFrom(text, 1, <<>>)

LineTokens(line) == IF line = Blank THEN <<>> ELSE <<line>>

\* mutant of JoinLines: joins on "\n" whatever the detected terminator
RECURSIVE JoinLinesOnLf(_, _)
JoinLinesOnLf(lines, eol) ==
    IF lines = <<>> THEN <<>>
    ELSE IF Len(lines) = 1 THEN LineTokens(lines[1])
    ELSE LineTokens(lines[1]) \o <<LF>> \o JoinLinesOnLf(Tail(lines), eol)

\* joinLines: lines.join(eol.sequence).
RECURSIVE JoinLines(_, _)
JoinLines(lines, eol) ==
    IF lines = <<>> THEN <<>>
    ELSE IF Len(lines) = 1 THEN LineTokens(lines[1])
    ELSE LineTokens(lines[1]) \o <<eol>> \o JoinLines(Tail(lines), eol)

\* Array.prototype.splice(start, deleteCount, ...items) on a 0-based start.
Splice(lines, start, deleteCount, items) ==
    LET s == IF start > Len(lines) THEN Len(lines) ELSE start
        e == IF s + deleteCount > Len(lines) THEN Len(lines) ELSE s + deleteCount
    IN  SubSeq(lines, 1, s) \o items \o SubSeq(lines, e + 1, Len(lines))

\* Array.prototype.slice(from, to) on 0-based from, exclusive to.
Slice(lines, from, to) ==
    SubSeq(lines, from + 1, IF to > Len(lines) THEN Len(lines) ELSE to)

\* ------------------------------------------------- domain value objects
RootPath == <<>>

PathIsRoot(path) == path = <<>>

PathEquals(p, q) == p = q

PathDepth(path) == Len(path)

PathLast(path) == IF path = <<>> THEN "" ELSE path[Len(path)]

GenerateTaskId(path, title) == [path |-> path, title |-> title]

\* Status.create fails on an empty or whitespace-only value.
StatusCreateOk(value) == value \notin {"", " "}

\* ------------------------------------------- remark block tree (parseToAst)
\* One node per line.  t is "heading", "item", "fence", "code", "quote",
\* "other" or "blank"; parent is the line of the enclosing list item (0 = top
\* level).
Node(t, parent) == [t |-> t, parent |-> parent]

\* close the open list items whose content column lies right of the indent
RECURSIVE PopTo(_, _)
PopTo(stack, indent) ==
    IF stack # <<>> /\ stack[Len(stack)].off > indent
    THEN PopTo(SubSeq(stack, 1, Len(stack) - 1), indent)
    ELSE stack

\* leading spaces of a line (ind of a heading is its level)
Indent(line) == IF line.k = "head" THEN 0 ELSE line.ind

\* stack: the open list items, [line, off] with off the content column.  A
\* fenced code block lies in the list item that is open where it starts and
\* ends at its closing fence, or where a line leaves that list item.
RECURSIVE ScanFrom(_, _, _, _)
ScanFrom(lines, i, inFence, stack) ==
    IF i > Len(lines) THEN <<>>
    ELSE LET L == lines[i]
             st == PopTo(stack, Indent(L))
             base == IF st = <<>> THEN 0 ELSE st[Len(st)].off
             parent == IF st = <<>> THEN 0 ELSE st[Len(st)].line
             fenceBase == IF stack = <<>> THEN 0 ELSE stack[Len(stack)].off
             fenceParent == IF stack = <<>> THEN 0 ELSE stack[Len(stack)].line
         IN  IF inFence /\ (L.k = "blank" \/ Indent(L) >= fenceBase)
             THEN IF L.k = "fence"
                  THEN <<Node("fence", fenceParent)>> \o ScanFrom(lines, i + 1, FALSE, stack)
                  ELSE <<Node("code", fenceParent)>> \o ScanFrom(lines, i + 1, TRUE, stack)
             ELSE IF L.k = "blank"
             THEN <<Node("blank", 0)>> \o ScanFrom(lines, i + 1, FALSE, stack)
             ELSE IF Indent(L) - base >= 4
             THEN <<Node("code", parent)>> \o ScanFrom(lines, i + 1, FALSE, st)
             ELSE IF L.k = "fence"
             THEN <<Node("fence", parent)>> \o ScanFrom(lines, i + 1, TRUE, st)
             ELSE IF L.k = "head"
             THEN <<Node("heading", 0)>> \o ScanFrom(lines, i + 1, FALSE, <<>>)
             ELSE IF L.k \in {"fmdelim", "yaml", "yamlbad"}
             THEN <<Node("other", 0)>> \o ScanFrom(lines, i + 1, FALSE, <<>>)
             ELSE IF L.k = "quotetask"
             THEN <<Node("quote", parent)>> \o ScanFrom(lines, i + 1, FALSE, st)
             ELSE <<Node("item", parent)>>
                  \o ScanFrom(lines, i + 1, FALSE, Append(st, [line |-> i, off |-> Indent(L) + 2]))

ParseToAst(lines) == ScanFrom(lines, 1, FALSE, <<>>)

\* listItem.checked is set (true or false) on a GFM task list item
HasCheckbox(line) == line.k \in {"task", "startask"}

RECURSIVE IsInside(_, _, _)
IsInside(nodes, j, i) ==
    /\ nodes[j].parent # 0
    /\ (nodes[j].parent = i \/ IsInside(nodes, nodes[j].parent, i))

\* position.end.line of the list item at line i: its last descendant line
ItemEndLine(nodes, i) ==
    LET inside == {j \in (i + 1)..Len(nodes) : IsInside(nodes, j, i)}
    IN  IF inside = {} THEN i ELSE CHOOSE j \in inside : \A m \in inside : m <= j

\* the lines of the direct children of the list item at line i (child list
\* items, and the lines of code blocks and block quotes), in document order
RECURSIVE ChildrenFrom(_, _, _)
ChildrenFrom(nodes, i, j) ==
    IF j > Len(nodes) THEN <<>>
    ELSE (IF nodes[j].parent = i THEN <<j>> ELSE <<>>) \o ChildrenFrom(nodes, i, j + 1)

\* the bullet of a list item line
Marker(line) == IF line.k = "startask" THEN "*" ELSE "-"

\* the items of the last list among the children: a list ends at a child
\* that is no list item and where the bullet changes (open: the child before
\* was an item of the list acc)
RECURSIVE LastList(_, _, _, _, _)
LastList(lines, nodes, children, acc, open) ==
    IF children = <<>> THEN acc
    ELSE LET c == children[1]
             rest == Tail(children)
         IN  IF nodes[c].t # "item"
             THEN LastList(lines, nodes, rest, acc, FALSE)
             ELSE IF open /\ Marker(lines[c]) = Marker(lines[acc[Len(acc)]])
             THEN LastList(lines, nodes, rest, Append(acc, c), TRUE)
             ELSE LastList(lines, nodes, rest, <<c>>, TRUE)

\* ------------------------------------------------ gray-matter (RemarkClient)
\* the line of the closing delimiter of a frontmatter block, 0 when the text
\* has none
CloseLine(lines) ==
    LET closers == {j \in 2..Len(lines) : lines[j] = FmDelim}
    IN  IF closers = {} THEN 0 ELSE CHOOSE j \in closers : \A m \in closers : j <= m

HasFrontmatter(lines) == lines[1] = FmDelim

\* the lines between the delimiters (to the end when nothing closes them)
MatterLines(lines) ==
    IF ~HasFrontmatter(lines) THEN <<>>
    ELSE SubSeq(lines, 2, IF CloseLine(lines) = 0 THEN Len(lines) ELSE CloseLine(lines) - 1)

\* content: the text after the closing delimiter and its line break
ContentLines(lines) ==
    IF ~HasFrontmatter(lines) THEN lines
    ELSE IF CloseLine(lines) = 0 \/ CloseLine(lines) = Len(lines) THEN <<Blank>>
    ELSE SubSeq(lines, CloseLine(lines) + 1, Len(lines))

\* the YAML parser throws on a line that is no mapping entry, comment or
\* blank line
YamlThrows(lines) ==
    \E n \in 1..Len(MatterLines(lines)) : MatterLines(lines)[n].k \notin {"yaml", "head", "blank"}

\* a YAML scalar: "" is written as two quotes, a blank between quotes is " "
YamlValue(raw) ==
    IF raw \in {"\"\"", "''"} THEN ""
    ELSE IF raw \in {"\" \"", "' '"} THEN " "
    ELSE raw

\* the YAML dump of a scalar: the empty string is written as ''
YamlDump(val) == IF val = "" THEN "''" ELSE val

\* data.kanban: the entries below the line "kanban:", as [key, val]
RECURSIVE KanbanEntries(_)
KanbanEntries(matterLines) ==
    IF matterLines = <<>> THEN <<>>
    ELSE (IF matterLines[1].k = "yaml" /\ matterLines[1].ind > 0
          THEN <<[key |-> matterLines[1].a, val |-> YamlValue(matterLines[1].b)]>> ELSE <<>>)
         \o KanbanEntries(Tail(matterLines))

\* parseFrontmatter: matter(markdown)
ParseFrontmatter(markdown) ==
    LET lines == SplitLines(markdown)
    IN  [threw |-> YamlThrows(lines),
         content |-> ContentLines(lines),
         kanban |-> KanbanEntries(MatterLines(lines))]

\* mutant of CountFrontmatterLines: the closing delimiter is not counted
CountFrontmatterLinesShort(original, content) ==
    IF original = content \/ Len(original) - Len(content) = 0 THEN 0
    ELSE Len(original) - Len(content) - 1

\* countFrontmatterLines: the line breaks of the text before content
CountFrontmatterLines(original, content) ==
    IF original = content THEN 0 ELSE Len(original) - Len(content)

\* ---------------------------------------------------------- MarkdownParser
DEFAULT_STATUS == "todo"
DEFAULT_DONE_STATUS == "done"

\* FrontmatterConfig, or none (set = FALSE); a field is undefined when its
\* has-flag is FALSE
NoConfig ==
    [set |-> FALSE, hasDefaultStatus |-> FALSE, defaultStatus |-> "",
     hasDefaultDoneStatus |-> FALSE, defaultDoneStatus |-> ""]

\* mutant of PopHeadings: pops the deeper levels only, so that a heading
\* stays on the stack below a later heading of its own level
RECURSIVE PopHeadingsDeeperOnly(_, _)
PopHeadingsDeeperOnly(stack, level) ==
    IF stack # <<>> /\ stack[Len(stack)].level > level
    THEN PopHeadingsDeeperOnly(SubSeq(stack, 1, Len(stack) - 1), level)
    ELSE stack

\* processHeading on a stack of [level, text]
RECURSIVE PopHeadings(_, _)
PopHeadings(stack, level) ==
    IF stack # <<>> /\ stack[Len(stack)].level >= level
    THEN PopHeadings(SubSeq(stack, 1, Len(stack) - 1), level)
    ELSE stack

ProcessHeading(stack, level, text) ==
    Append(PopHeadings(stack, level), [level |-> level, text |-> text])

StackPath(stack) == [n \in 1..Len(stack) |-> stack[n].text]

\* the heading stack after the walk has passed the first upTo lines
RECURSIVE HeadingStackAt(_, _, _)
HeadingStackAt(lines, nodes, upTo) ==
    IF upTo = 0 THEN <<>>
    ELSE LET below == HeadingStackAt(lines, nodes, upTo - 1)
         IN  IF nodes[upTo].t = "heading"
             THEN ProcessHeading(below, lines[upTo].ind, lines[upTo].a)
             ELSE below

\* metadata is an ordered map: a sequence of [key, val] with distinct keys
MetaHas(metadata, key) == \E n \in 1..Len(metadata) : metadata[n].key = key

MetaGet(metadata, key) ==
    IF MetaHas(metadata, key)
    THEN (CHOOSE e \in {metadata[n] : n \in 1..Len(metadata)} : e.key = key).val
    ELSE ""

MetaSet(metadata, key, val) ==
    IF MetaHas(metadata, key)
    THEN [n \in 1..Len(metadata) |->
            IF metadata[n].key = key THEN [key |-> key, val |-> val] ELSE metadata[n]]
    ELSE Append(metadata, [key |-> key, val |-> val])

RECURSIVE MetaWithout(_, _)
MetaWithout(metadata, key) ==
    IF metadata = <<>> THEN <<>>
    ELSE (IF metadata[1].key = key THEN <<>> ELSE <<metadata[1]>>)
         \o MetaWithout(Tail(metadata), key)

\* extractMetadata: the key: value children of the item, a later value of a
\* key replacing the earlier one
RECURSIVE ExtractMetadata(_, _, _)
ExtractMetadata(lines, children, acc) ==
    IF children = <<>> THEN acc
    ELSE LET L == lines[children[1]]
         IN  ExtractMetadata(lines, Tail(children),
                 IF L.k = "meta" /\ L.a # "" /\ L.b # "" THEN MetaSet(acc, L.a, L.b) ELSE acc)

\* mutant of DetermineStatus: the configured defaults are not consulted
DetermineStatusLiteralDefaults(explicitStatus, isChecked, config) ==
    IF explicitStatus # "" THEN explicitStatus
    ELSE IF isChecked THEN DEFAULT_DONE_STATUS
    ELSE DEFAULT_STATUS

DetermineStatus(explicitStatus, isChecked, config) ==
    IF explicitStatus # "" THEN explicitStatus
    ELSE IF isChecked
    THEN (IF config.set /\ config.hasDefaultDoneStatus THEN config.defaultDoneStatus
          ELSE DEFAULT_DONE_STATUS)
    ELSE (IF config.set /\ config.hasDefaultStatus THEN config.defaultStatus
          ELSE DEFAULT_STATUS)

\* mutant of Walked: processList also descends into checkbox items
WalkedIntoTasks(lines, nodes, i) == TRUE

\* no enclosing list item carries a checkbox: processList reaches the item
RECURSIVE Walked(_, _, _)
Walked(lines, nodes, i) ==
    \/ nodes[i].parent = 0
    \/ /\ ~HasCheckbox(lines[nodes[i].parent])
       /\ Walked(lines, nodes, nodes[i].parent)

ExtractTask(lines, nodes, i, lineOffset, config) ==
    LET list == LastList(lines, nodes, ChildrenFrom(nodes, i, i + 1), <<>>, FALSE)
        metadata == ExtractMetadata(lines, list, <<>>)
        endLine == IF list = <<>> THEN ItemEndLine(nodes, i)
                   ELSE ItemEndLine(nodes, list[Len(list)])
        path == StackPath(HeadingStackAt(lines, nodes, i))
        isChecked == lines[i].a \in {"x", "X"}
    IN  [id |-> GenerateTaskId(path, lines[i].b),
         title |-> lines[i].b,
         status |-> DetermineStatus(MetaGet(metadata, "status"), isChecked, config),
         path |-> path,
         isChecked |-> isChecked,
         metadata |-> MetaWithout(metadata, "status"),
         startLine |-> i + lineOffset,
         endLine |-> endLine + lineOffset]

\* mutant of WalkTasks: the walk descends into block quotes
RECURSIVE WalkTasksIntoQuotes(_, _, _, _, _)
WalkTasksIntoQuotes(lines, nodes, i, lineOffset, config) ==
    IF i > Len(lines) THEN <<>>
    ELSE LET task == ExtractTask(lines, nodes, i, lineOffset, config)
         IN  (IF /\ nodes[i].t \in {"item", "quote"}
                 /\ (HasCheckbox(lines[i]) \/ lines[i].k = "quotetask")
                 /\ Walked(lines, nodes, i)
                 /\ lines[i].b # ""
                 /\ StatusCreateOk(task.status)
              THEN <<task>> ELSE <<>>)
             \o WalkTasksIntoQuotes(lines, nodes, i + 1, lineOffset, config)

\* walkNodes / processList: the tasks in document order
RECURSIVE WalkTasks(_, _, _, _, _)
WalkTasks(lines, nodes, i, lineOffset, config) ==
    IF i > Len(lines) THEN <<>>
    ELSE LET task == ExtractTask(lines, nodes, i, lineOffset, config)
         IN  (IF /\ nodes[i].t = "item"
                 /\ HasCheckbox(lines[i])
                 /\ Walked(lines, nodes, i)
                 /\ lines[i].b # ""
                 /\ StatusCreateOk(task.status)
              THEN <<task>> ELSE <<>>)
             \o WalkTasks(lines, nodes, i + 1, lineOffset, config)

RECURSIVE WalkHeadings(_, _, _)
WalkHeadings(lines, nodes, i) ==
    IF i > Len(lines) THEN <<>>
    ELSE (IF nodes[i].t = "heading"
          THEN <<StackPath(HeadingStackAt(lines, nodes, i))>> ELSE <<>>)
         \o WalkHeadings(lines, nodes, i + 1)

\* detectDuplicates: one warning per id that more than one task carries, in
\* the order of the first task of each id; lines are the start lines
RECURSIVE DuplicatesFrom(_, _)

\* mutant of DuplicatesFrom: the tasks are grouped by title, not by id
RECURSIVE DuplicatesFromByTitle(_, _)
DuplicatesFromByTitle(tasks, n) ==
    IF n > Len(tasks) THEN <<>>
    ELSE LET group == {m \in 1..Len(tasks) : tasks[m].title = tasks[n].title}
         IN  (IF (\A m \in group : n <= m) /\ Cardinality(group) > 1
              THEN <<[title |-> tasks[n].title, path |-> tasks[n].path,
                      lines |-> {tasks[m].startLine : m \in group}]>>
              ELSE <<>>)
             \o DuplicatesFromByTitle(tasks, n + 1)

DuplicatesFrom(tasks, n) ==
    IF n > Len(tasks) THEN <<>>
    ELSE LET group == {m \in 1..Len(tasks) : tasks[m].id = tasks[n].id}
         IN  (IF (\A m \in group : n <= m) /\ Cardinality(group) > 1
              THEN <<[title |-> tasks[n].title, path |-> tasks[n].path,
                      lines |-> {tasks[m].startLine : m \in group}]>>
              ELSE <<>>)
             \o DuplicatesFrom(tasks, n + 1)

DetectDuplicates(tasks) == DuplicatesFrom(tasks, 1)

\* extractConfig: undefined (set = FALSE) unless data.kanban is a mapping
ExtractConfig(kanban) ==
    [set |-> kanban # <<>>,
     hasDefaultStatus |-> MetaHas(kanban, "defaultStatus"),
     defaultStatus |-> MetaGet(kanban, "defaultStatus"),
     hasDefaultDoneStatus |-> MetaHas(kanban, "defaultDoneStatus"),
     defaultDoneStatus |-> MetaGet(kanban, "defaultDoneStatus")]

\* the ParseResult that parse returns
ParseResult(tasks, headings, config) ==
    [threw |-> FALSE,
     tasks |-> tasks,
     headings |-> headings,
     config |-> config,
     warnings |-> DetectDuplicates(tasks),
     returned |-> TRUE]

\* walkNodes over the tree of the content, then detectDuplicates
WalkNodes(lines, nodes, lineOffset, config) ==
    ParseResult(WalkTasks(lines, nodes, 1, lineOffset, config),
                WalkHeadings(lines, nodes, 1), config)

\* parse, from the extracted frontmatter on
ParseContent(original, fm) ==
    IF fm.threw
    THEN [threw |-> TRUE, tasks |-> <<>>, headings |-> <<>>, config |-> NoConfig,
          warnings |-> <<>>, returned |-> FALSE]
    ELSE WalkNodes(fm.content, ParseToAst(fm.content),
                   CountFrontmatterLines(original, fm.content), ExtractConfig(fm.kanban))

\* parse: returns ok(...) whenever it returns; threw = TRUE when the
\* frontmatter extraction throws, which parse does not catch
Parse(text) == ParseContent(SplitLines(text), ParseFrontmatter(text))

\* ------------------------------------------ RemarkClient.updateFrontmatter
\* { ...kanban, ...updates }: a key of updates replaces the value of that key
\* in place, a new key is appended
RECURSIVE MergeEntries(_, _)
MergeEntries(kanban, updates) ==
    IF updates = <<>> THEN kanban
    ELSE MergeEntries(MetaSet(kanban, updates[1].key, updates[1].val), Tail(updates))

\* the dump of { kanban: entries }
DumpKanban(entries) ==
    <<YamlLine(0, "kanban", "")>>
    \o [n \in 1..Len(entries) |-> YamlLine(2, entries[n].key, YamlDump(entries[n].val))]

\* matter.stringify appends a line break to a content that does not end in one
WithNewline(content) ==
    IF Len(content) >= 2 /\ content[Len(content)] = Blank THEN content
    ELSE Append(content, Blank)

\* updateFrontmatter: the kanban section merged with updates, dumped between
\* two delimiter lines in front of the content; kanban is the only key of the
\* frontmatter here.  Throws where matter(markdown) throws.
UpdateFrontmatter(markdown, updates) ==
    LET fm == ParseFrontmatter(markdown)
        updatedKanban == MergeEntries(fm.kanban, updates)
    IN  [threw |-> fm.threw,
         text |-> JoinLines(<<FmDelim>> \o DumpKanban(updatedKanban) \o <<FmDelim>>
                            \o WithNewline(fm.content), LF)]

\* ---------------------------------------------------------- TaskLineEditor
\* /^(\s*-\s*\[[ xX]\]\s*)(.+)$/ matches a checkbox line with a title
MatchesCheckboxPattern(line) == line.k = "task" /\ line.b # ""

\* applyTitleChange: newTitle = "" is the absent (falsy) title
ApplyTitleChange(taskLines, newTitle) ==
    IF newTitle = "" \/ ~MatchesCheckboxPattern(taskLines[1]) THEN taskLines
    ELSE [taskLines EXCEPT ![1] = TaskLine(taskLines[1].ind, taskLines[1].a, newTitle)]

\* String.replace with a pattern that has no g flag on the text of a title:
\* the first "[ ]" becomes "[x]" (toChecked), or the first "[x]" or "[X]"
\* becomes "[ ]"; a title without such text is returned as it is
ReplaceFirstBox(title, toChecked) ==
    IF toChecked
    THEN (IF title = "a [ ] b" THEN "a [x] b" ELSE title)
    ELSE (IF title \in {"a [x] b", "a [X] b"} THEN "a [ ] b" ELSE title)

\* mutant of ReplaceCheckbox: the pattern for a checked box misses "X"
ReplaceCheckboxLowerOnly(line, isDone) ==
    IF ~HasCheckbox(line) THEN line
    ELSE IF isDone
    THEN (IF line.a = " " THEN [line EXCEPT !.a = "x"]
          ELSE [line EXCEPT !.b = ReplaceFirstBox(line.b, TRUE)])
    ELSE (IF line.a = "x" THEN [line EXCEPT !.a = " "]
          ELSE [line EXCEPT !.b = ReplaceFirstBox(line.b, FALSE)])

\* taskLines[0].replace(/\[[ ]\]/, '[x]') and .replace(/\[[xX]\]/, '[ ]'):
\* the first match in the line is replaced, which is the checkbox when it
\* has the other state and otherwise the first such text of the title
ReplaceCheckbox(line, isDone) ==
    IF ~HasCheckbox(line) THEN line
    ELSE IF isDone
    THEN (IF line.a = " " THEN [line EXCEPT !.a = "x"]
          ELSE [line EXCEPT !.b = ReplaceFirstBox(line.b, TRUE)])
    ELSE (IF line.a \in {"x", "X"} THEN [line EXCEPT !.a = " "]
          ELSE [line EXCEPT !.b = ReplaceFirstBox(line.b, FALSE)])

\* /^\s*-\s*status:\s*.+$/
MatchesStatusLine(line) == line.k = "meta" /\ line.a = "status" /\ line.b # ""

\* mutant of FindStatusLineIndex: the pattern matches no line (as it did on
\* lines that kept a trailing \r)
FindStatusLineIndexNoMatch(taskLines) == 0

\* findStatusLineIndex: 1-based index of the first status line below the
\* checkbox line, 0 when there is none (the code's -1)
FindStatusLineIndex(taskLines) ==
    LET hits == {n \in 2..Len(taskLines) : MatchesStatusLine(taskLines[n])}
    IN  IF hits = {} THEN 0 ELSE CHOOSE n \in hits : \A m \in hits : n <= m

\* findMetadataLineIndex
FindMetadataLineIndex(taskLines, key) ==
    LET hits == {n \in 2..Len(taskLines) :
                    taskLines[n].k = "meta" /\ taskLines[n].a = key /\ taskLines[n].b # ""}
    IN  IF hits = {} THEN 0 ELSE CHOOSE n \in hits : \A m \in hits : n <= m

InsertAt(lines, index0, items) == Splice(lines, index0, 0, items)

RemoveAt(lines, n) == SubSeq(lines, 1, n - 1) \o SubSeq(lines, n + 1, Len(lines))

\* applyStatusChange: newStatus = "" is the absent status
ApplyStatusChange(taskLines, newStatus, doneStatuses) ==
    IF newStatus = "" THEN taskLines
    ELSE LET isDone == newStatus \in doneStatuses
             boxed == [taskLines EXCEPT ![1] = ReplaceCheckbox(taskLines[1], isDone)]
             statusLineIndex == FindStatusLineIndex(boxed)
         IN  IF statusLineIndex > 0
             THEN [boxed EXCEPT ![statusLineIndex] =
                       MetaLine(boxed[statusLineIndex].ind, "status", newStatus)]
             ELSE InsertAt(boxed, 1, <<MetaLine(2, "status", newStatus)>>)

\* the loop over deletedKeys
RECURSIVE DeleteKeys(_, _)
DeleteKeys(taskLines, keys) ==
    IF keys = <<>> THEN taskLines
    ELSE LET index == FindMetadataLineIndex(taskLines, keys[1])
         IN  DeleteKeys(IF index > 0 THEN RemoveAt(taskLines, index) ELSE taskLines,
                        Tail(keys))

\* the loop over metadataKeys
RECURSIVE PutKeys(_, _)
PutKeys(taskLines, entries) ==
    IF entries = <<>> THEN taskLines
    ELSE LET key == entries[1].key
             value == entries[1].val
             index == FindMetadataLineIndex(taskLines, key)
             indent == IF Len(taskLines) > 1 THEN taskLines[2].ind ELSE 2
             statusIndex == FindStatusLineIndex(taskLines)
             insertIndex == IF statusIndex > 0 THEN statusIndex ELSE 1
             next ==
                 IF value = ""
                 THEN (IF index > 0 THEN RemoveAt(taskLines, index) ELSE taskLines)
                 ELSE IF index > 0
                 THEN [taskLines EXCEPT ![index] = MetaLine(indent, key, value)]
                 ELSE InsertAt(taskLines, insertIndex, <<MetaLine(indent, key, value)>>)
         IN  PutKeys(next, Tail(entries))

RECURSIVE KeysNotIn(_, _)
KeysNotIn(oldMetadata, newMetadata) ==
    IF oldMetadata = <<>> THEN <<>>
    ELSE (IF oldMetadata[1].key # "status" /\ ~MetaHas(newMetadata, oldMetadata[1].key)
          THEN <<oldMetadata[1].key>> ELSE <<>>)
         \o KeysNotIn(Tail(oldMetadata), newMetadata)

\* applyMetadataChange: newMetadata is [set, m], set = FALSE when absent
ApplyMetadataChange(taskLines, newMetadata, oldMetadata) ==
    IF ~newMetadata.set THEN taskLines
    ELSE PutKeys(DeleteKeys(taskLines, KeysNotIn(oldMetadata, newMetadata.m)),
                 MetaWithout(newMetadata.m, "status"))

\* ------------------------------------------------------ MarkdownSerializer
Ok(text) == [ok |-> TRUE, text |-> text, err |-> ""]

Err(tag) == [ok |-> FALSE, text |-> <<>>, err |-> tag]

\* no Result at all: the call ends with an exception
Thrown == [ok |-> FALSE, text |-> <<>>, err |-> "exception"]

NoMetadata == [set |-> FALSE, m |-> <<>>]

NoPath == [set |-> FALSE, p |-> <<>>]

NoId == [set |-> FALSE, id |-> GenerateTaskId(<<>>, "")]

NoCreate ==
    [set |-> FALSE, title |-> "", path |-> <<>>, status |-> "", metadata |-> NoMetadata]

\* /^#{1,6}\s+/ and /^(#{1,6})\s+(.+)$/ on a raw line
MatchesHeading(line) == line.k = "head"

\* findFirstHeadingLine: 0-based index, -1 when no line matches
FindFirstHeadingLine(lines) ==
    LET hits == {n \in 1..Len(lines) : MatchesHeading(lines[n])}
    IN  IF hits = {} THEN -1 ELSE (CHOOSE n \in hits : \A m \in hits : n <= m) - 1

\* buildPathAtLine: the stack algorithm over the raw lines 0..lineIndex
RECURSIVE RawStackAt(_, _)
RawStackAt(lines, upTo) ==
    IF upTo = 0 THEN <<>>
    ELSE LET below == RawStackAt(lines, upTo - 1)
         IN  IF MatchesHeading(lines[upTo])
             THEN Append(PopHeadings(below, lines[upTo].ind),
                         [level |-> lines[upTo].ind, text |-> lines[upTo].a])
             ELSE below

BuildPathAtLine(lines, lineIndex) == StackPath(RawStackAt(lines, lineIndex + 1))

\* findInsertLineForPath: scan state is [target, next], both 0-based or -1
RECURSIVE InsertScan(_, _, _, _, _)
InsertScan(lines, targetPath, i, target, next) ==
    IF i >= Len(lines) \/ next >= 0 THEN [target |-> target, next |-> next]
    ELSE LET line == lines[i + 1]
         IN  IF ~MatchesHeading(line)
             THEN InsertScan(lines, targetPath, i + 1, target, next)
             ELSE IF target < 0
             THEN IF line.a = PathLast(targetPath)
                     /\ PathEquals(BuildPathAtLine(lines, i), targetPath)
                  THEN InsertScan(lines, targetPath, i + 1, i, next)
                  ELSE InsertScan(lines, targetPath, i + 1, target, next)
             ELSE IF line.ind <= PathDepth(targetPath)
             THEN [target |-> target, next |-> i]
             ELSE InsertScan(lines, targetPath, i + 1, target, next)

FindInsertLineForPath(lines, targetPath) ==
    LET r == InsertScan(lines, targetPath, 0, -1, -1)
    IN  IF r.target < 0 THEN Len(lines)
        ELSE IF r.next >= 0 THEN r.next ELSE Len(lines)

RECURSIVE FilterByPath(_, _)
FilterByPath(tasks, path) ==
    IF tasks = <<>> THEN <<>>
    ELSE (IF PathEquals(tasks[1].path, path) THEN <<tasks[1]>> ELSE <<>>)
         \o FilterByPath(Tail(tasks), path)

\* findInsertLineForRoot, and the root branch of createTask
FindInsertLineForRoot(lines, tasks) ==
    LET rootTasks == FilterByPath(tasks, RootPath)
        firstHeadingLine == FindFirstHeadingLine(lines)
    IN  IF Len(rootTasks) > 0 THEN rootTasks[Len(rootTasks)].endLine
        ELSE IF firstHeadingLine >= 0 THEN firstHeadingLine
        ELSE Len(lines)

\* findInsertLineForHeading, and the non-root branch of createTask
FindInsertLineForHeading(lines, tasks, targetPath) ==
    LET pathTasks == FilterByPath(tasks, targetPath)
    IN  IF Len(pathTasks) > 0 THEN pathTasks[Len(pathTasks)].endLine
        ELSE FindInsertLineForPath(lines, targetPath)

\* mutant of HeadingExists: compares the last segment only
HeadingExistsByLastSegment(headings, path) ==
    \E n \in 1..Len(headings) : PathLast(headings[n]) = PathLast(path)

HeadingExists(headings, path) ==
    \E n \in 1..Len(headings) : PathEquals(headings[n], path)

\* findInsertLineForNewPath
FindInsertLineForNewPath(markdown, targetPath) ==
    LET parsed == Parse(markdown)
        lines == SplitLines(markdown)
    IN  IF PathIsRoot(targetPath)
        THEN FindInsertLineForRoot(lines, parsed.tasks)
        ELSE FindInsertLineForHeading(lines, parsed.tasks, targetPath)

\* validateTargetPath
ValidateTargetPath(markdown, targetPath) ==
    PathIsRoot(targetPath) \/ HeadingExists(Parse(markdown).headings, targetPath)

RECURSIVE MetadataLines(_)
MetadataLines(metadata) ==
    IF metadata = <<>> THEN <<>>
    ELSE (IF metadata[1].key # "status" /\ metadata[1].val # ""
          THEN <<MetaLine(2, metadata[1].key, metadata[1].val)>> ELSE <<>>)
         \o MetadataLines(Tail(metadata))

CreateTask(markdown, create, doneStatuses) ==
    LET parsed == Parse(markdown)
        eolInfo == DetectEol(markdown)
        lines == SplitLines(markdown)
        isDone == create.status \in doneStatuses
        taskLines ==
            <<TaskLine(0, IF isDone THEN "x" ELSE " ", create.title),
              MetaLine(2, "status", create.status)>>
            \o (IF create.metadata.set THEN MetadataLines(create.metadata.m) ELSE <<>>)
        insertLine ==
            IF PathIsRoot(create.path)
            THEN FindInsertLineForRoot(lines, parsed.tasks)
            ELSE FindInsertLineForHeading(lines, parsed.tasks, create.path)
    IN  IF ~PathIsRoot(create.path) /\ ~HeadingExists(parsed.headings, create.path)
        THEN Err("HeadingNotFound")
        ELSE Ok(JoinLines(Splice(lines, insertLine, 0, taskLines), eolInfo))

EditTaskLines(lines, task, edit) ==
    ApplyMetadataChange(
        ApplyStatusChange(
            ApplyTitleChange(Slice(lines, task.startLine - 1, task.endLine), edit.newTitle),
            edit.newStatus, edit.doneStatuses),
        edit.newMetadata, task.metadata)

\* mutant of DeleteTask: deleteCount misses the + 1
DeleteTaskShort(markdown, task) ==
    LET eolInfo == DetectEol(markdown)
        lines == SplitLines(markdown)
        deleteCount == task.endLine - task.startLine
    IN  Ok(JoinLines(Splice(lines, task.startLine - 1, deleteCount, <<>>), eolInfo))

\* mutant of DeleteTask: only the checkbox line is removed
DeleteTaskFirstLine(markdown, task) ==
    LET eolInfo == DetectEol(markdown)
        lines == SplitLines(markdown)
    IN  Ok(JoinLines(Splice(lines, task.startLine - 1, 1, <<>>), eolInfo))

DeleteTask(markdown, task) ==
    LET eolInfo == DetectEol(markdown)
        lines == SplitLines(markdown)
        deleteCount == task.endLine - task.startLine + 1
    IN  Ok(JoinLines(Splice(lines, task.startLine - 1, deleteCount, <<>>), eolInfo))

\* mutant of MoveTask: the splice that removes the task from its old place
\* is missing
MoveTaskKeepsOriginal(markdown, task, edit) ==
    LET newPath == edit.newPath.p
        eolInfo == DetectEol(markdown)
        lines == SplitLines(markdown)
        taskLines == EditTaskLines(lines, task, edit)
        deletedMarkdown == JoinLines(lines, eolInfo)
        insertLine == FindInsertLineForNewPath(deletedMarkdown, newPath)
        remainingLines == SplitLines(deletedMarkdown)
    IN  IF ~ValidateTargetPath(markdown, newPath) THEN Err("HeadingNotFound")
        ELSE Ok(JoinLines(Splice(remainingLines, insertLine, 0, taskLines), eolInfo))

MoveTask(markdown, task, edit) ==
    LET newPath == edit.newPath.p
        eolInfo == DetectEol(markdown)
        lines == SplitLines(markdown)
        taskLines == EditTaskLines(lines, task, edit)
        deleteCount == task.endLine - task.startLine + 1
        deletedMarkdown ==
            JoinLines(Splice(lines, task.startLine - 1, deleteCount, <<>>), eolInfo)
        insertLine == FindInsertLineForNewPath(deletedMarkdown, newPath)
        remainingLines == SplitLines(deletedMarkdown)
    IN  IF ~ValidateTargetPath(markdown, newPath) THEN Err("HeadingNotFound")
        ELSE Ok(JoinLines(Splice(remainingLines, insertLine, 0, taskLines), eolInfo))

\* mutant of UpdateTask: the splice removes one line more than the task has
UpdateTaskWideSplice(markdown, task, edit) ==
    IF edit.newPath.set /\ ~PathEquals(edit.newPath.p, task.path)
    THEN MoveTask(markdown, task, edit)
    ELSE LET eolInfo == DetectEol(markdown)
             lines == SplitLines(markdown)
             taskLines == EditTaskLines(lines, task, edit)
         IN  Ok(JoinLines(
                 Splice(lines, task.startLine - 1, task.endLine - task.startLine + 2,
                        taskLines),
                 eolInfo))

UpdateTask(markdown, task, edit) ==
    IF edit.newPath.set /\ ~PathEquals(edit.newPath.p, task.path)
    THEN MoveTask(markdown, task, edit)
    ELSE LET eolInfo == DetectEol(markdown)
             lines == SplitLines(markdown)
             taskLines == EditTaskLines(lines, task, edit)
         IN  Ok(JoinLines(
                 Splice(lines, task.startLine - 1, task.endLine - task.startLine + 1,
                        taskLines),
                 eolInfo))

\* mutant of FindTaskIndex: falls back to the first task when no id matches
FindTaskIndexFallback(tasks, id) ==
    LET hits == {n \in 1..Len(tasks) : tasks[n].id = id}
    IN  IF hits = {} THEN (IF tasks = <<>> THEN 0 ELSE 1)
        ELSE CHOOSE n \in hits : \A m \in hits : n <= m

\* tasks.find((t) => t.id === edit.taskId): 1-based index, 0 when absent
FindTaskIndex(tasks, id) ==
    LET hits == {n \in 1..Len(tasks) : tasks[n].id = id}
    IN  IF hits = {} THEN 0 ELSE CHOOSE n \in hits : \A m \in hits : n <= m

ApplyEdit(markdown, edit) ==
    IF edit.create.set
    THEN (IF Parse(markdown).threw THEN Thrown
          ELSE CreateTask(markdown, edit.create, edit.doneStatuses))
    ELSE IF ~edit.taskId.set THEN Err("NoTaskId")
    ELSE LET parseResult == Parse(markdown)
             n == FindTaskIndex(parseResult.tasks, edit.taskId.id)
         IN  IF parseResult.threw THEN Thrown
             ELSE IF n = 0 THEN Err("TaskNotFound")
             ELSE IF edit.delete THEN DeleteTask(markdown, parseResult.tasks[n])
             ELSE UpdateTask(markdown, parseResult.tasks[n], edit)

\* ------------------------------------------------------------ the inputs
Blocks ==
    { <<HeadingLine(1, "A")>>,
      <<HeadingLine(2, "B")>>,
      <<TaskLine(0, " ", "T1")>>,
      <<TaskLine(0, "x", "T1"), MetaLine(2, "status", "done")>>,
      <<TaskLine(0, " ", "T2"), MetaLine(2, "status", "done"), MetaLine(2, "priority", "high")>>,
      <<Bullet(0, "item"), TaskLine(2, " ", "T3"), MetaLine(4, "status", "todo")>>,
      <<Blank>>,
      <<Fence, HeadingLine(1, "A"), Fence>> }

RECURSIVE Flatten(_)
Flatten(blocks) ==
    IF blocks = <<>> THEN <<>> ELSE blocks[1] \o Flatten(Tail(blocks))

DocLines == {Flatten(bs) : bs \in UNION {[1..n -> Blocks] : n \in 1..MaxBlocks}}

\* the line terminators of a document: all LF, all CRLF, or CRLF then LF
RECURSIVE JoinStyled(_, _)
JoinStyled(lines, style) ==
    IF Len(lines) = 1 THEN LineTokens(lines[1])
    ELSE LineTokens(lines[1])
         \o <<IF style = "LF" THEN LF ELSE CRLF>>
         \o JoinStyled(Tail(lines), IF style = "MIXED" THEN "LF" ELSE style)

Documents == {JoinStyled(lines, style) : lines \in DocLines, style \in {"LF", "CRLF", "MIXED"}}

Titles == {"New"}
Paths == {<<>>, <<"A">>, <<"A", "B">>, <<"Z">>}
Statuses == {"todo", "done"}
DoneStatuses == {"done"}
Metadatas ==
    { NoMetadata,
      [set |-> TRUE, m |-> <<>>],
      [set |-> TRUE, m |-> <<[key |-> "priority", val |-> "low"]>>] }
UnknownId == GenerateTaskId(<<>>, "Unknown")

TaskIds(markdown) ==
    LET tasks == Parse(markdown).tasks IN {tasks[n].id : n \in 1..Len(tasks)}

NoEdit ==
    [create |-> NoCreate, taskId |-> NoId, delete |-> FALSE, newTitle |-> "",
     newStatus |-> "", newPath |-> NoPath, newMetadata |-> NoMetadata,
     doneStatuses |-> DoneStatuses]

\* ---------------------------------------------------------- state machine
VARIABLES
    text,      \* the document text
    prev,      \* the text the last edit was applied to
    edit,      \* the last TaskEdit handed to applyEdit
    result,    \* the Result of the last applyEdit
    count,     \* number of applyEdit calls made
    parsed,    \* the last ParseResult obtained (by a caller, or by applyEdit
               \* of its input), NoParse before
    inflight   \* the message handlers of the panel that have not returned

vars == <<text, prev, edit, result, count, parsed, inflight>>

NoParse == [threw |-> FALSE, tasks |-> <<>>, headings |-> <<>>, config |-> NoConfig,
            warnings |-> <<>>, returned |-> FALSE]

\* no edit made, nothing parsed, no message being handled
Fresh ==
    /\ prev = text
    /\ edit = NoEdit
    /\ result = [ok |-> TRUE, text |-> text, err |-> "none"]
    /\ count = 0
    /\ parsed = NoParse
    /\ inflight = <<>>

Init ==
    /\ text \in Documents
    /\ Fresh

\* the caller hands the edit to applyEdit and writes an ok result back;
\* applyEdit parses its input unless the edit names neither a create nor a
\* task
Apply(e) ==
    /\ prev' = text
    /\ edit' = e
    /\ parsed' = IF e.create.set \/ e.taskId.set THEN Parse(text) ELSE parsed
    /\ result' = ApplyEdit(text, e)
    /\ text' = IF result'.ok THEN result'.text ELSE text
    /\ count' = count + 1
    /\ UNCHANGED inflight

\* applyEdit is a function of its arguments: Create, Update, Move and Delete
\* each make one call on the input document
Create ==
    /\ count = 0
    /\ \E title \in Titles, path \in Paths, status \in Statuses, metadata \in Metadatas :
          Apply([NoEdit EXCEPT !.create =
                    [set |-> TRUE, title |-> title, path |-> path, status |-> status,
                     metadata |-> metadata]])

Update ==
    /\ count = 0
    /\ \E id \in TaskIds(text) \cup {UnknownId}, newTitle \in Titles \cup {""},
          newStatus \in Statuses \cup {""}, newMetadata \in Metadatas :
          Apply([NoEdit EXCEPT !.taskId = [set |-> TRUE, id |-> id],
                               !.newTitle = newTitle, !.newStatus = newStatus,
                               !.newMetadata = newMetadata])

Move ==
    /\ count = 0
    /\ \E id \in TaskIds(text) \cup {UnknownId}, path \in Paths, newStatus \in {"", "done"} :
          Apply([NoEdit EXCEPT !.taskId = [set |-> TRUE, id |-> id],
                               !.newPath = [set |-> TRUE, p |-> path],
                               !.newStatus = newStatus])

DeleteWhen(enabled) ==
    /\ enabled
    /\ \E id \in TaskIds(text) \cup TaskIds(prev) \cup {UnknownId} :
          Apply([NoEdit EXCEPT !.taskId = [set |-> TRUE, id |-> id], !.delete = TRUE])

Delete == DeleteWhen(count = 0)

Next == Create \/ Update \/ Move \/ Delete

Spec == Init /\ [][Next]_vars

\* a caller that deletes several times in a row, each time from the text the
\* previous call returned
DeleteAgain == DeleteWhen(count < MaxDeletes)

SpecDelete == Init /\ [][DeleteAgain]_vars

\* ------------------------------------------ single edits of task shapes
\* the shapes of task the parser returns: the three checkbox marks, the
\* bullets "-" and "*", with and without a status line, nested in a bullet
EditBlocks ==
    { <<TaskLine(0, " ", "T1")>>,
      <<TaskLine(0, "x", "T1"), MetaLine(2, "status", "done")>>,
      <<TaskLine(0, "X", "T2")>>,
      <<StarTaskLine(0, " ", "T4")>>,
      <<Bullet(0, "item"), TaskLine(2, "x", "T3"), MetaLine(4, "status", "todo")>>,
      <<HeadingLine(1, "A")>> }

EditDocuments ==
    {JoinStyled(Flatten(bs), "LF") : bs \in UNION {[1..n -> EditBlocks] : n \in 1..MaxEditBlocks}}

\* the doneStatuses of an edit: absent (empty), the default, a wider set
DoneSets == {{}, {"done"}, {"todo", "done"}}

InitEdit ==
    /\ text \in EditDocuments
    /\ Fresh

Rename ==
    /\ count = 0
    /\ \E id \in TaskIds(text), newTitle \in Titles, newStatus \in {"", "done"},
          done \in DoneSets :
          Apply([NoEdit EXCEPT !.taskId = [set |-> TRUE, id |-> id],
                               !.newTitle = newTitle, !.newStatus = newStatus,
                               !.doneStatuses = done])

Restatus ==
    /\ count = 0
    /\ \E id \in TaskIds(text), newStatus \in Statuses, done \in DoneSets :
          Apply([NoEdit EXCEPT !.taskId = [set |-> TRUE, id |-> id],
                               !.newStatus = newStatus, !.doneStatuses = done])

CreateDone ==
    /\ count = 0
    /\ \E title \in Titles, path \in {<<>>, <<"A">>}, status \in Statuses, done \in DoneSets :
          Apply([NoEdit EXCEPT !.create =
                    [set |-> TRUE, title |-> title, path |-> path, status |-> status,
                     metadata |-> NoMetadata],
                               !.doneStatuses = done])

NextEdit == Rename \/ Restatus \/ CreateDone

SpecEdit == InitEdit /\ [][NextEdit]_vars

\* ------------------------------------------------- edits one after another
\* each edit is applied to the text the previous edit returned
SeqBlocks ==
    { <<HeadingLine(1, "A")>>,
      <<TaskLine(0, " ", "T1")>>,
      <<TaskLine(0, " ", "T2"), MetaLine(2, "status", "done"), MetaLine(2, "priority", "high")>>,
      <<Fence, HeadingLine(1, "A"), Fence>> }

SeqDocuments ==
    {JoinStyled(Flatten(bs), "LF") : bs \in UNION {[1..n -> SeqBlocks] : n \in 1..MaxSeqBlocks}}

InitSeq ==
    /\ text \in SeqDocuments
    /\ Fresh

SeqCreate ==
    /\ count < MaxEdits
    /\ \E title \in Titles, path \in {<<>>, <<"A">>}, status \in Statuses :
          Apply([NoEdit EXCEPT !.create =
                    [set |-> TRUE, title |-> title, path |-> path, status |-> status,
                     metadata |-> NoMetadata]])

SeqRename ==
    /\ count < MaxEdits
    /\ \E id \in TaskIds(text), newTitle \in {"New", "Newer"} :
          Apply([NoEdit EXCEPT !.taskId = [set |-> TRUE, id |-> id], !.newTitle = newTitle])

SeqRestatus ==
    /\ count < MaxEdits
    /\ \E id \in TaskIds(text), newStatus \in Statuses :
          Apply([NoEdit EXCEPT !.taskId = [set |-> TRUE, id |-> id], !.newStatus = newStatus])

SeqDelete ==
    /\ count < MaxEdits
    /\ \E id \in TaskIds(text) :
          Apply([NoEdit EXCEPT !.taskId = [set |-> TRUE, id |-> id], !.delete = TRUE])

NextSeq == SeqCreate \/ SeqRename \/ SeqRestatus \/ SeqDelete

SpecSeq == InitSeq /\ [][NextSeq]_vars

\* ------------------------------------------------------ parse of a document
\* the frontmatter of a document: none, a kanban section with both default
\* statuses, with defaultStatus only, without either, YAML that does not parse
FrontBlocks ==
    { <<>>,
      <<FmDelim, YamlLine(0, "kanban", ""), YamlLine(2, "defaultStatus", "backlog"),
        YamlLine(2, "defaultDoneStatus", "closed"), FmDelim>>,
      <<FmDelim, YamlLine(0, "kanban", ""), YamlLine(2, "defaultStatus", "backlog"), FmDelim>>,
      <<FmDelim, YamlLine(0, "kanban", ""), YamlLine(2, "sortBy", "due"), FmDelim>>,
      <<FmDelim, YamlBad, FmDelim>> }

ParseBlocks ==
    { <<HeadingLine(1, "A"), HeadingLine(3, "C")>>,
      <<HeadingLine(2, "B"), TaskLine(0, " ", "T1")>>,
      <<HeadingLine(1, "D"), TaskLine(0, "x", "T1")>>,
      <<TaskLine(0, " ", "T1")>>,
      <<TaskLine(0, "X", "T2"), MetaLine(2, "status", "doing"), MetaLine(2, "due", "mon")>>,
      <<TaskLine(0, "x", "T4"), TaskLine(2, " ", "T5")>>,
      <<QuoteTaskLine(0, " ", "Q")>>,
      <<Fence, TaskLine(0, " ", "F"), Fence>>,
      <<Bullet(0, "item"), QuoteTaskLine(2, " ", "Q"), FenceAt(2), TaskLine(2, " ", "F"),
        FenceAt(2), TaskLine(2, "x", "T3")>>,
      <<Blank>> }

ParseDocuments ==
    {JoinStyled(front \o Flatten(bs), "LF") :
        front \in FrontBlocks, bs \in UNION {[1..n -> ParseBlocks] : n \in 1..MaxParseBlocks}}

InitParse ==
    /\ text \in ParseDocuments
    /\ Fresh

\* a caller parses the document
ParseText ==
    /\ ~parsed.returned /\ ~parsed.threw
    /\ parsed' = Parse(text)
    /\ UNCHANGED <<text, prev, edit, result, count, inflight>>

\* and then creates a task, or deletes one of the tasks the parse returned
EditParsed ==
    /\ parsed.returned \/ parsed.threw
    /\ count = 0
    /\ \/ \E title \in Titles :
             Apply([NoEdit EXCEPT !.create =
                       [set |-> TRUE, title |-> title, path |-> <<>>, status |-> "todo",
                        metadata |-> NoMetadata]])
       \/ \E id \in {parsed.tasks[n].id : n \in 1..Len(parsed.tasks)} \cup {UnknownId} :
             Apply([NoEdit EXCEPT !.taskId = [set |-> TRUE, id |-> id], !.delete = TRUE])

NextParse == ParseText \/ EditParsed

SpecParse == InitParse /\ [][NextParse]_vars

\* ---------------------------------------- messages of the panel's WebView
\* UPDATE_CONFIG messages arrive at the listener that setupMessageHandler
\* registers.  The emitter calls the async listener for every message and
\* does not wait for the promise it returns; the listener awaits
\* handleMessage, which hands the payload to UpdateConfigUseCase.execute.
\* execute awaits the read of the document text, computes the new text, and
\* awaits its write-back.
Handlers == 1..MaxHandlers

\* UpdateConfigInput: filterPaths and sortBy, each optional
ConfigUpdates ==
    { <<[key |-> "sortBy", val |-> "priority"]>>,
      <<[key |-> "sortBy", val |-> "due"]>>,
      <<[key |-> "filterPaths", val |-> "[]"]>> }

Messages == {[type |-> "UPDATE_CONFIG", payload |-> updates] : updates \in ConfigUpdates}

\* handleMessage: an UPDATE_CONFIG message is handed to updateConfig with its
\* payload, and from there to execute
HandleMessage(message) == message.payload

\* getCurrentDocumentText resolves with the text the document holds then
GetCurrentDocumentText(document) == document

\* replaceDocumentText replaces the whole text of the document
ReplaceDocumentText(document, updatedMarkdown) == updatedMarkdown

\* the call of the listener for one message: not started, awaiting the read
\* of the text, awaiting the write-back, returned, or ended by an exception
Idle == [pc |-> "idle", updates |-> <<>>, markdown |-> <<>>, updated |-> <<>>]

HandlerDocuments ==
    {JoinStyled(front \o body, "LF") : front \in FrontBlocks, body \in ParseBlocks}

InitHandler ==
    /\ text \in HandlerDocuments
    /\ prev = text
    /\ edit = NoEdit
    /\ result = [ok |-> TRUE, text |-> text, err |-> "none"]
    /\ count = 0
    /\ parsed = NoParse
    /\ inflight = [h \in Handlers |-> Idle]

\* a message arrives: the listener runs up to the await of
\* getCurrentDocumentText; messages are delivered in order
Receive(h) ==
    /\ inflight[h].pc = "idle"
    /\ \A g \in 1..(h - 1) : inflight[g].pc # "idle"
    /\ \E message \in Messages :
          inflight' = [inflight EXCEPT ![h] =
                          [Idle EXCEPT !.pc = "reading", !.updates = HandleMessage(message)]]
    /\ UNCHANGED <<text, prev, edit, result, count, parsed>>

\* getCurrentDocumentText resolves with the text of the document; execute
\* computes updatedMarkdown and calls replaceDocumentText
ReadText(h) ==
    /\ inflight[h].pc = "reading"
    /\ LET markdown == GetCurrentDocumentText(text)
           u == UpdateFrontmatter(markdown, inflight[h].updates)
       IN  inflight' = [inflight EXCEPT ![h] =
                           IF u.threw
                           THEN [@ EXCEPT !.pc = "threw", !.markdown = markdown]
                           ELSE [@ EXCEPT !.pc = "writing", !.markdown = markdown,
                                          !.updated = u.text]]
    /\ UNCHANGED <<text, prev, edit, result, count, parsed>>

\* getCurrentDocumentText resolves with an error: execute returns err
ReadFails(h) ==
    /\ inflight[h].pc = "reading"
    /\ inflight' = [inflight EXCEPT ![h].pc = "returned"]
    /\ result' = [ok |-> FALSE, text |-> <<>>, err |-> "UpdateConfigError"]
    /\ UNCHANGED <<text, prev, edit, count, parsed>>

\* replaceDocumentText resolves: the document holds updatedMarkdown
WriteBack(h) ==
    /\ inflight[h].pc = "writing"
    /\ inflight' = [inflight EXCEPT ![h].pc = "returned"]
    /\ text' = ReplaceDocumentText(text, inflight[h].updated)
    /\ prev' = text
    /\ result' = [ok |-> TRUE, text |-> inflight[h].updated, err |-> "none"]
    /\ count' = count + 1
    /\ UNCHANGED <<edit, parsed>>

\* replaceDocumentText resolves with an error: execute returns err
WriteFails(h) ==
    /\ inflight[h].pc = "writing"
    /\ inflight' = [inflight EXCEPT ![h].pc = "returned"]
    /\ result' = [ok |-> FALSE, text |-> <<>>, err |-> "UpdateConfigError"]
    /\ UNCHANGED <<text, prev, edit, count, parsed>>

NextHandler ==
    \E h \in Handlers :
        Receive(h) \/ ReadText(h) \/ ReadFails(h) \/ WriteBack(h) \/ WriteFails(h)

SpecHandler == InitHandler /\ [][NextHandler]_vars

\* --------------------------------------------- list items and their ranges
\* the frontmatter: none, a kanban section of one line below the key, one
\* whose defaultStatus is the empty string, one whose defaultDoneStatus is a
\* blank, and one with both defaults and a blank line after it
ItemFronts ==
    { <<>>,
      <<FmDelim, YamlLine(0, "kanban", ""), YamlLine(2, "sortBy", "due"), FmDelim>>,
      <<FmDelim, YamlLine(0, "kanban", ""), YamlLine(2, "defaultStatus", "''"), FmDelim>>,
      <<FmDelim, YamlLine(0, "kanban", ""), YamlLine(2, "defaultDoneStatus", "' '"), FmDelim>>,
      <<FmDelim, YamlLine(0, "kanban", ""), YamlLine(2, "defaultStatus", "backlog"),
        YamlLine(2, "defaultDoneStatus", "closed"), FmDelim, Blank>> }

\* a bare task, a task with a metadata list, a task whose metadata list is
\* followed by a block quote of the same item, a task with a block quote and
\* no list, a task nested in a bullet, a heading
ItemBlocks ==
    { <<TaskLine(0, " ", "T1")>>,
      <<TaskLine(0, "x", "T2"), MetaLine(2, "status", "doing"), MetaLine(2, "due", "mon")>>,
      <<TaskLine(0, " ", "T3"), MetaLine(2, "due", "mon"), QuoteTaskLine(2, " ", "Q")>>,
      <<TaskLine(0, "x", "T4"), QuoteTaskLine(2, " ", "Q")>>,
      <<Bullet(0, "item"), TaskLine(2, " ", "T5")>>,
      <<HeadingLine(1, "A")>> }

ItemDocuments ==
    {JoinStyled(front \o Flatten(bs), style) :
        front \in ItemFronts, style \in {"LF", "CRLF"},
        bs \in UNION {[1..n -> ItemBlocks] : n \in 1..MaxItemBlocks}}

InitItems ==
    /\ text \in ItemDocuments
    /\ Fresh

\* a caller sets the status of a task of the document, or deletes it
ItemEdit ==
    /\ count = 0
    /\ \E id \in TaskIds(text) :
          \/ \E newStatus \in Statuses :
                Apply([NoEdit EXCEPT !.taskId = [set |-> TRUE, id |-> id],
                                     !.newStatus = newStatus])
          \/ Apply([NoEdit EXCEPT !.taskId = [set |-> TRUE, id |-> id], !.delete = TRUE])

NextItems == ParseText \/ ItemEdit

SpecItems == InitItems /\ [][NextItems]_vars

\* ------------------------------------- status and metadata of one task
\* a bare task, a task whose children are indented four spaces, a task with
\* two status lines, a childless task nested in a bullet, and tasks whose
\* title holds the text of a checkbox
LineBlocks ==
    { <<TaskLine(0, " ", "T1")>>,
      <<TaskLine(0, "x", "T2"), MetaLine(4, "status", "doing"), MetaLine(4, "due", "mon")>>,
      <<TaskLine(0, " ", "T3"), MetaLine(2, "status", "todo"), MetaLine(2, "status", "doing")>>,
      <<Bullet(0, "item"), TaskLine(2, " ", "T5")>>,
      <<TaskLine(0, "x", "a [ ] b")>>,
      <<TaskLine(0, " ", "a [x] b"), MetaLine(2, "due", "mon")>> }

LineDocuments ==
    {JoinStyled(Flatten(bs), style) :
        style \in {"LF", "CRLF"},
        bs \in UNION {[1..n -> LineBlocks] : n \in 1..MaxLineBlocks}}

LineStatuses == {"todo", "done", "review"}

\* newMetadata: empty, a new value of a key, an empty value of a key, a key
\* the task does not have, and both a new value and a new key
LineMetadatas ==
    { [set |-> TRUE, m |-> <<>>],
      [set |-> TRUE, m |-> <<[key |-> "due", val |-> "tue"]>>],
      [set |-> TRUE, m |-> <<[key |-> "due", val |-> ""]>>],
      [set |-> TRUE, m |-> <<[key |-> "priority", val |-> "low"]>>],
      [set |-> TRUE, m |-> <<[key |-> "due", val |-> "tue"], [key |-> "priority", val |-> "low"]>>] }

InitLines ==
    /\ text \in LineDocuments
    /\ Fresh

\* applyEdit with a newStatus only
SetStatus ==
    /\ count = 0
    /\ \E id \in TaskIds(text), newStatus \in LineStatuses :
          Apply([NoEdit EXCEPT !.taskId = [set |-> TRUE, id |-> id],
                               !.newStatus = newStatus])

\* applyEdit with a newMetadata only
SetMetadata ==
    /\ count = 0
    /\ \E id \in TaskIds(text), newMetadata \in LineMetadatas :
          Apply([NoEdit EXCEPT !.taskId = [set |-> TRUE, id |-> id],
                               !.newMetadata = newMetadata])

NextLines == SetStatus \/ SetMetadata

SpecLines == InitLines /\ [][NextLines]_vars

\* ------------------------------------------------- vocabulary of the claims
Applied == count > 0

Succeeded == Applied /\ result.ok

IsCreate == Applied /\ edit.create.set

\* the ids of the tasks of the input document, as applyEdit parsed it
InputIds == {parsed.tasks[n].id : n \in 1..Len(parsed.tasks)}

HasTarget ==
    Applied /\ ~edit.create.set /\ edit.taskId.set /\ edit.taskId.id \in InputIds

\* the task of the input document the edit addresses: the first with its id
Target ==
    LET tasks == parsed.tasks
    IN  tasks[CHOOSE n \in 1..Len(tasks) :
                 tasks[n].id = edit.taskId.id /\ \A m \in 1..(n - 1) : tasks[m].id # edit.taskId.id]

IsDelete == edit.delete /\ HasTarget

IsMove == ~edit.delete /\ edit.newPath.set /\ HasTarget /\ edit.newPath.p # Target.path

IsInPlaceUpdate ==
    ~edit.delete /\ HasTarget /\ ~(edit.newPath.set /\ edit.newPath.p # Target.path)

\* the line terminators of a text, in order
Terminators(markdown) == SelectSeq(markdown, IsEol)

UniformEol(markdown) ==
    \A i, j \in 1..Len(markdown) : IsEol(markdown[i]) /\ IsEol(markdown[j]) => markdown[i] = markdown[j]

\* The lines of old outside s..e are found in new, in order, with a block of
\* lines put in after the first k of them; with terminators, the terminator
\* between two such lines that stay adjacent is the one of old.
FrameKept(old, new, s, e, k, terminators) ==
    LET ol == SplitLines(old)
        nl == SplitLines(new)
        cut == e - s + 1
        rest == Len(ol) - cut
        m == Len(nl) - rest
        r(i) == IF i < s THEN i ELSE i - cut
        f(i) == IF r(i) <= k THEN r(i) ELSE r(i) + m
        untouched == {i \in 1..Len(ol) : i < s \/ i > e}
    IN  /\ k \in 0..rest
        /\ \/ m >= 0
           \/ rest = 0 /\ new = <<>>
        /\ \A i \in untouched :
              /\ nl[f(i)] = ol[i]
              /\ (terminators /\ (i + 1) \in untouched /\ f(i + 1) = f(i) + 1)
                    => Terminators(new)[f(i)] = Terminators(old)[i]

\* the frame of the last edit: around the target's lines for an update or a
\* delete, around the insertion point for a create or a move
\* the frame around the lines of a task, nothing moved
TaskFrameKept(task, terminators) ==
    FrameKept(prev, text, task.startLine, task.endLine, task.startLine - 1, terminators)

EditFrameKept(terminators) ==
    LET n == Len(SplitLines(prev))
        target == Target
    IN  IF IsCreate
        THEN \E k \in 0..n : FrameKept(prev, text, n + 1, n, k, terminators)
        ELSE IF ~edit.delete /\ edit.newPath.set /\ edit.newPath.p # target.path
        THEN \E k \in 0..n : FrameKept(prev, text, target.startLine, target.endLine, k, terminators)
        ELSE TaskFrameKept(target, terminators)

\* ------------------------------------------------------------------ claims

\* C1: in a document with at least two tasks, a successful update without a
\* path change leaves every line outside the target's startLine..endLine with
\* the same content and in the same order.
C1_UpdateKeepsOtherLines ==
    (Succeeded /\ IsInPlaceUpdate /\ Len(parsed.tasks) >= 2)
        => TaskFrameKept(Target, FALSE)

\* C1 witness: a title, status and metadata update of one of two tasks that
\* changed the text.
C1_Witness ==
    /\ Succeeded /\ IsInPlaceUpdate /\ Len(parsed.tasks) >= 2
    /\ edit.newTitle # "" /\ edit.newStatus # "" /\ edit.newMetadata.set
    /\ Len(SplitLines(text)) # Len(SplitLines(prev))

\* C2 as stated: every successful edit of every document, mixed line endings
\* included, keeps the content of each untouched line and the terminator
\* that follows it.
C2_EveryByteOutsideKept ==
    (Succeeded /\ (IsCreate \/ HasTarget)) => EditFrameKept(TRUE)

\* C2 amended: the content of every untouched line is kept for every
\* document, and the terminators are kept when the line endings of the
\* document are all LF or all CRLF.
C2_UniformEolKept ==
    (Succeeded /\ (IsCreate \/ HasTarget)) => EditFrameKept(UniformEol(prev))

\* C2 witness: a successful edit of a CRLF document of several lines.
C2_Witness ==
    /\ Succeeded /\ HasTarget /\ text # prev
    /\ Len(Terminators(prev)) >= 2 /\ UniformEol(prev) /\ DetectEol(prev) = CRLF

\* C3: a successful edit of a document whose line breaks are all CRLF (and
\* that has a line break) returns a text whose line breaks are all CRLF.
C3_CrlfPreserved ==
    (Succeeded /\ Terminators(prev) # <<>>
       /\ \A i \in 1..Len(Terminators(prev)) : Terminators(prev)[i] = CRLF)
        => \A i \in 1..Len(Terminators(text)) : Terminators(text)[i] = CRLF

\* C3 witness: a create that inserted lines into a CRLF document.
C3_Witness ==
    /\ Succeeded /\ IsCreate
    /\ Terminators(prev) # <<>>
    /\ \A i \in 1..Len(Terminators(prev)) : Terminators(prev)[i] = CRLF
    /\ Len(Terminators(text)) > Len(Terminators(prev))

\* a status-only update that re-sets the status the parser reports
IsStatusReset ==
    /\ IsInPlaceUpdate
    /\ edit.newStatus = Target.status
    /\ edit.newTitle = "" /\ ~edit.newMetadata.set

\* the lines of the target's range that read "- status: ..."
StatusLinesOf(markdown, task) ==
    {n \in task.startLine..task.endLine :
        SplitLines(markdown)[n].k = "meta" /\ SplitLines(markdown)[n].a = "status"}

CheckboxAgrees == Target.isChecked <=> (Target.status \in edit.doneStatuses)

C5_UnknownIdIsError ==
    (Applied /\ ~edit.create.set /\ edit.taskId.set /\ edit.taskId.id \notin InputIds)
        => ~result.ok /\ result.text = <<>> /\ text = prev

\* C5 witness: a move with a status change on an unknown id, in a document
\* that has tasks, was refused.
C5_Witness ==
    /\ Applied /\ edit.taskId.set /\ edit.taskId.id \notin InputIds
    /\ InputIds # {}
    /\ edit.newPath.set /\ edit.newStatus # ""
    /\ result.err = "TaskNotFound"

NoSuchHeading(path) ==
    LET headings == parsed.headings
    IN  \A n \in 1..Len(headings) : headings[n] # path

\* C6: a create at, or a move to, a non-root path that no heading has is an
\* error that returns no text; the root path is always accepted.
C6_MissingHeadingIsError ==
    /\ (IsCreate /\ edit.create.path # <<>> /\ NoSuchHeading(edit.create.path))
          => ~result.ok /\ result.text = <<>> /\ text = prev
    /\ (edit.newPath.p # <<>> /\ IsMove /\ NoSuchHeading(edit.newPath.p))
          => ~result.ok /\ result.text = <<>> /\ text = prev
    /\ (IsCreate /\ edit.create.path = <<>>) => result.ok
    /\ (edit.newPath.p = <<>> /\ IsMove) => result.ok

\* C6 witness: a move to a path of two segments was refused in a document
\* that has a heading with the same last segment.
C6_Witness ==
    /\ IsMove /\ result.err = "HeadingNotFound"
    /\ Len(edit.newPath.p) = 2
    /\ \E n \in 1..Len(parsed.headings) :
          PathLast(parsed.headings[n]) = PathLast(edit.newPath.p)

\* id, title, status and metadata of the tasks of a text, in order
TaskFacts(markdown) ==
    LET tasks == Parse(markdown).tasks
    IN  [n \in 1..Len(tasks) |->
            [id |-> tasks[n].id, title |-> tasks[n].title, status |-> tasks[n].status,
             metadata |-> tasks[n].metadata]]

TargetIndex ==
    CHOOSE n \in 1..Len(parsed.tasks) :
        /\ parsed.tasks[n].id = edit.taskId.id
        /\ \A m \in 1..(n - 1) : parsed.tasks[m].id # edit.taskId.id

CarriedOnce(markdown, id) ==
    Cardinality({n \in 1..Len(Parse(markdown).tasks) : Parse(markdown).tasks[n].id = id}) = 1

\* C7 as stated: a delete of a present id succeeds, the same delete on the
\* returned text fails with task-not-found, and the first delete changes no
\* other task.
C7_SecondDeleteFails ==
    [][/\ (HasTarget /\ edit.delete) => result.ok
       /\ (IsDelete /\ result.ok /\ edit' = edit) => result'.err = "TaskNotFound"
       /\ (IsDelete /\ result.ok)
             => TaskFacts(text) = RemoveAt(TaskFacts(prev), TargetIndex)]_vars

\* C7 amended: the second delete fails with task-not-found when exactly one
\* task of the document carried the id.
C7_SecondDeleteFailsWhenUnique ==
    [][/\ (HasTarget /\ edit.delete) => result.ok
       /\ (IsDelete /\ result.ok /\ CarriedOnce(prev, edit.taskId.id) /\ edit' = edit)
             => result'.err = "TaskNotFound"
       /\ (IsDelete /\ result.ok)
             => TaskFacts(text) = RemoveAt(TaskFacts(prev), TargetIndex)]_vars

\* C7 witness: the second delete of an id, made on a text that still has a
\* task, was refused.
C7_Witness ==
    /\ count = 2 /\ edit.delete /\ edit.taskId.id # UnknownId
    /\ result.err = "TaskNotFound"
    /\ TaskIds(text) # {}

TitledTasks(markdown, title) ==
    {n \in 1..Len(Parse(markdown).tasks) : Parse(markdown).tasks[n].title = title}

\* C8: a create of title T at the root of a document without a task titled T
\* gives, on re-parse, exactly one task titled T, at the root path and with
\* the id generateTaskId(root, T).
C8_CreateThenFind ==
    (Succeeded /\ IsCreate /\ edit.create.path = <<>>
       /\ TitledTasks(prev, edit.create.title) = {})
        => /\ Cardinality(TitledTasks(text, edit.create.title)) = 1
           /\ \A n \in TitledTasks(text, edit.create.title) :
                 /\ Parse(text).tasks[n].path = <<>>
                 /\ Parse(text).tasks[n].id = GenerateTaskId(<<>>, edit.create.title)

\* the lines of the target after the title, status and metadata edits
EditedTargetLines ==
    ApplyMetadataChange(
        ApplyStatusChange(
            ApplyTitleChange(
                SubSeq(SplitLines(prev), Target.startLine, Target.endLine), edit.newTitle),
            edit.newStatus, edit.doneStatuses),
        edit.newMetadata, Target.metadata)

\* the input without the lines of the target
WithoutTarget ==
    SubSeq(SplitLines(prev), 1, Target.startLine - 1)
        \o SubSeq(SplitLines(prev), Target.endLine + 1, Len(SplitLines(prev)))

\* C9: a successful move returns the input without the task's lines, with
\* the edited lines of the task put in once, at the insertion point computed
\* for the destination on the task-removed document.
C9_MoveSplicesOnce ==
    (Succeeded /\ IsMove)
        => LET k == FindInsertLineForNewPath(JoinLines(WithoutTarget, DetectEol(prev)),
                                             edit.newPath.p)
               m == Len(EditedTargetLines)
           IN  /\ FrameKept(prev, text, Target.startLine, Target.endLine, k, FALSE)
               /\ Len(SplitLines(text)) = Len(WithoutTarget) + m
               /\ SubSeq(SplitLines(text), k + 1, k + m) = EditedTargetLines

\* C9 witness: a task with child lines moved, with a status change, to a
\* place before its old position.
C9_Witness ==
    /\ Succeeded /\ IsMove /\ edit.newStatus # ""
    /\ Target.endLine > Target.startLine
    /\ FindInsertLineForNewPath(JoinLines(WithoutTarget, DetectEol(prev)), edit.newPath.p)
          < Target.startLine - 1

\* C10: a successful delete removes the lines startLine..endLine of the
\* target and no other; its child lines are gone and the other tasks remain.
C10_DeleteRemovesRange ==
    (Succeeded /\ IsDelete)
        => /\ SplitLines(text) = (IF WithoutTarget = <<>> THEN <<Blank>> ELSE WithoutTarget)
           /\ TaskFrameKept(Target, FALSE)
           /\ Len(Parse(text).tasks) = Len(parsed.tasks) - 1
           /\ \A id \in InputIds : id # edit.taskId.id => id \in TaskIds(text)

\* C10 witness: a task with child lines was deleted from a document that has
\* another task.
C10_Witness ==
    /\ Succeeded /\ IsDelete
    /\ Target.endLine > Target.startLine
    /\ Len(Parse(prev).tasks) >= 2

\* the first line of the target in the input and in the returned text
TargetLineBefore == SplitLines(prev)[Target.startLine]

TargetLineAfter == SplitLines(text)[Target.startLine]

IsChecked(line) == HasCheckbox(line) /\ line.a \in {"x", "X"}

\* C11: a successful update with a non-empty newTitle T makes the first line
\* of the target its old indentation, bullet and checkbox followed by T, for
\* every task the parser returns.
C11_TitleReplaced ==
    (Succeeded /\ IsInPlaceUpdate /\ edit.newTitle # "")
        => /\ TargetLineAfter.b = edit.newTitle
           /\ TargetLineAfter.k = TargetLineBefore.k
           /\ TargetLineAfter.ind = TargetLineBefore.ind
           /\ edit.newStatus = "" => TargetLineAfter.a = TargetLineBefore.a

\* C12: after a successful status update the checkbox of the target is
\* checked exactly when the new status is in the done-set, whatever it was
\* before; a create writes [x] exactly when its status is in the done-set.
C12_CheckboxFollowsDone ==
    /\ (Succeeded /\ IsInPlaceUpdate /\ edit.newStatus # "")
          => (IsChecked(TargetLineAfter) <=> edit.newStatus \in edit.doneStatuses)
    /\ (Succeeded /\ IsCreate)
          => \E k \in 0..Len(SplitLines(prev)) :
                /\ FrameKept(prev, text, Len(SplitLines(prev)) + 1, Len(SplitLines(prev)), k, FALSE)
                /\ SplitLines(text)[k + 1] =
                      TaskLine(0, IF edit.create.status \in edit.doneStatuses THEN "x" ELSE " ",
                               edit.create.title)

\* C12 witness: a task marked [X] was set to a status outside the done-set.
C12_Witness ==
    /\ Succeeded /\ IsInPlaceUpdate /\ edit.newStatus # ""
    /\ TargetLineBefore.a = "X"
    /\ edit.newStatus \notin edit.doneStatuses
    /\ edit.doneStatuses # {}

\* the tasks of a text with the n-th left out
FactsWithout(markdown, n) == RemoveAt(TaskFacts(markdown), n)

\* what the target is after the title and status of the edit are applied
EditedFacts ==
    LET title == IF edit.newTitle # "" THEN edit.newTitle ELSE Target.title
        status == IF edit.newStatus # "" THEN edit.newStatus ELSE Target.status
    IN  [id |-> GenerateTaskId(Target.path, title), title |-> title, status |-> status,
         metadata |-> Target.metadata]

\* C13: in a run of edits, each applied to the text the one before returned,
\* every edit succeeds on the task that carries its id in the current text
\* and its effect, and no other, shows in the parse of the returned text: a
\* create adds its task, an update changes the title and status of its
\* target, a delete removes its target.
C13_EveryEditTakesEffect ==
    /\ (IsCreate /\ edit.create.path = <<>>) => result.ok
    /\ HasTarget => result.ok
    /\ (Succeeded /\ IsCreate)
          => \E n \in 1..Len(TaskFacts(text)) :
                /\ TaskFacts(text)[n].title = edit.create.title
                /\ TaskFacts(text)[n].status = edit.create.status
                /\ TaskFacts(text)[n].id = GenerateTaskId(edit.create.path, edit.create.title)
                /\ FactsWithout(text, n) = TaskFacts(prev)
    /\ (Succeeded /\ IsInPlaceUpdate)
          => TaskFacts(text) = [TaskFacts(prev) EXCEPT ![TargetIndex] = EditedFacts]
    /\ (Succeeded /\ IsDelete)
          => TaskFacts(text) = FactsWithout(prev, TargetIndex)

\* C15: parse and applyEdit return a result for every text and never throw:
\* a failure of the frontmatter extraction is a parse error that parse
\* returns, and applyEdit turns it into an error result without text.
C15_NeverThrows ==
    /\ ~parsed.threw
    /\ result.err # "exception"

\* parsed is the parse of the text as it is now (no edit was made since)
ParsedNow == parsed.returned /\ count = 0

\* the lines of the document and the number of lines of its frontmatter
TextLines == SplitLines(text)

FrontLines == CountFrontmatterLines(TextLines, ContentLines(TextLines))

\* a line between an opening fence and its closing fence
InFencedCode(i) == Cardinality({j \in 1..(i - 1) : TextLines[j].k = "fence"}) % 2 = 1

\* the headings of the document: the heading lines below the frontmatter
\* that are not code
HeadingLines ==
    {i \in (FrontLines + 1)..Len(TextLines) : TextLines[i].k = "head" /\ ~InFencedCode(i)}

Latest(S) == IF S = {} THEN 0 ELSE CHOOSE h \in S : \A g \in S : g <= h

\* the nearest heading above the heading at line h that has a smaller level
Enclosing(h) == Latest({g \in HeadingLines : g < h /\ TextLines[g].ind < TextLines[h].ind})

\* the texts of the heading at line h and of the headings that enclose it
RECURSIVE ChainOf(_)
ChainOf(h) == IF h = 0 THEN <<>> ELSE Append(ChainOf(Enclosing(h)), TextLines[h].a)

\* the section a line lies in
SectionAt(i) == ChainOf(Latest({h \in HeadingLines : h <= i}))

RECURSIVE InOrder(_)
InOrder(S) ==
    IF S = {} THEN <<>>
    ELSE LET first == CHOOSE h \in S : \A g \in S : h <= g
         IN  <<first>> \o InOrder(S \ {first})

\* C16: the path of every task, and every entry of headings, is the chain of
\* heading texts at its line: each heading is below the nearest heading
\* above it that has a smaller level, so a level jump skips segments, a later
\* heading of the same level replaces the earlier one, and a task above
\* every heading has the root path.
C16_PathIsHeadingChain ==
    ParsedNow
        => /\ \A n \in 1..Len(parsed.tasks) :
                 parsed.tasks[n].path = SectionAt(parsed.tasks[n].startLine)
           /\ parsed.headings =
                 [n \in 1..Cardinality(HeadingLines) |-> ChainOf(InOrder(HeadingLines)[n])]

\* C16 witness: a task below H1 A, H3 C, H2 B has the path A / B, and the
\* headings list has the entry A / C of the level jump.
C16_Witness ==
    /\ ParsedNow
    /\ \E n \in 1..Len(parsed.tasks) : parsed.tasks[n].path = <<"A", "B">>
    /\ \E n \in 1..Len(parsed.headings) : parsed.headings[n] = <<"A", "C">>
    /\ FrontLines > 0

\* the list item line that encloses line i: the nearest line above it that is
\* a list item with a smaller indentation, 0 at the top level
EnclosingItem(i) ==
    IF TextLines[i].ind = 0 THEN 0
    ELSE Latest({j \in 1..(i - 1) :
                    /\ TextLines[j].k \in {"task", "startask", "bullet", "meta"}
                    /\ TextLines[j].ind < TextLines[i].ind
                    /\ ~InFencedCode(j)})

\* a checkbox item outside quotes and code that no checkbox item encloses
IsOpenCheckbox(i) ==
    /\ i > FrontLines
    /\ HasCheckbox(TextLines[i])
    /\ ~InFencedCode(i)
    /\ \/ EnclosingItem(i) = 0
       \/ /\ TextLines[EnclosingItem(i)].k = "bullet"
          /\ TextLines[EnclosingItem(i)].ind = 0

\* C17: no checkbox item of a block quote or of a fenced code block is among
\* the tasks, also when the quote or the code lies in a list item, and the
\* checkbox items outside them are found.
C17_QuotesAndCodeOpaque ==
    ParsedNow
        => /\ \A n \in 1..Len(parsed.tasks) :
                 /\ TextLines[parsed.tasks[n].startLine].k # "quotetask"
                 /\ ~InFencedCode(parsed.tasks[n].startLine)
           /\ \A i \in 1..Len(TextLines) :
                 IsOpenCheckbox(i) => \E n \in 1..Len(parsed.tasks) : parsed.tasks[n].startLine = i

\* C17 witness: in a list item that holds a quoted checkbox and a fenced
\* checkbox, the checkbox item after them was found.
C17_Witness ==
    /\ ParsedNow
    /\ \E n \in 1..Len(parsed.tasks) :
          LET i == parsed.tasks[n].startLine
          IN  /\ TextLines[i].ind = 2
              /\ TextLines[i - 1].k = "fence" /\ TextLines[i - 1].ind = 2
              /\ \E j \in 1..(i - 1) : TextLines[j].k = "quotetask" /\ TextLines[j].ind = 2

\* the metadata lines of the task at line i that carry the key status: the
\* lines of the run of metadata lines right below it, one level deeper
ExplicitStatusLines(i) ==
    {j \in (i + 1)..Len(TextLines) :
        /\ TextLines[j].k = "meta" /\ TextLines[j].a = "status" /\ TextLines[j].b # ""
        /\ \A m \in (i + 1)..j :
              TextLines[m].k = "meta" /\ TextLines[m].ind = TextLines[i].ind + 2}

\* the lines of the frontmatter that set the kanban key
ConfiguredBy(key) ==
    {j \in 1..FrontLines :
        TextLines[j].k = "yaml" /\ TextLines[j].ind > 0 /\ TextLines[j].a = key}

\* the configured value of key, or the literal when the frontmatter has none
ConfiguredOr(key, literal) ==
    IF ConfiguredBy(key) = {} THEN literal
    ELSE YamlValue(TextLines[Latest(ConfiguredBy(key))].b)

ExpectedStatus(i) ==
    IF ExplicitStatusLines(i) # {} THEN TextLines[Latest(ExplicitStatusLines(i))].b
    ELSE IF IsChecked(TextLines[i]) THEN ConfiguredOr("defaultDoneStatus", "done")
    ELSE ConfiguredOr("defaultStatus", "todo")

\* C18: the status of a parsed task is its explicit status metadata value if
\* it has one, else the configured defaultDoneStatus or "done" when its
\* checkbox is checked, else the configured defaultStatus or "todo".
C18_StatusDetermination ==
    ParsedNow
        => \A n \in 1..Len(parsed.tasks) :
              parsed.tasks[n].status = ExpectedStatus(parsed.tasks[n].startLine)

\* C18 witness: under a frontmatter that configures both defaults, one parse
\* result holds a checked task with an explicit status and a checked task
\* that took the configured defaultDoneStatus.
C18_Witness ==
    /\ ParsedNow
    /\ ConfiguredBy("defaultDoneStatus") # {}
    /\ \E n \in 1..Len(parsed.tasks) :
          parsed.tasks[n].isChecked /\ parsed.tasks[n].status = "doing"
    /\ \E n \in 1..Len(parsed.tasks) :
          parsed.tasks[n].isChecked /\ parsed.tasks[n].status = "closed"

\* the returned tasks that carry the id, and the warnings about the id
TasksWithId(id) == {n \in 1..Len(parsed.tasks) : parsed.tasks[n].id = id}

WarningsAbout(id) ==
    {w \in 1..Len(parsed.warnings) :
        GenerateTaskId(parsed.warnings[w].path, parsed.warnings[w].title) = id}

\* C19: an id carried by more than one task has exactly one warning, which
\* lists the start lines of all of them; an id carried by one task has none
\* (equal titles under different paths); every warning is about the id of a
\* returned task, and every checkbox item is still returned as a task.
C19_OneWarningPerDuplicatedId ==
    ParsedNow
        => /\ \A n \in 1..Len(parsed.tasks) :
                 LET id == parsed.tasks[n].id
                 IN  IF Cardinality(TasksWithId(id)) > 1
                     THEN /\ Cardinality(WarningsAbout(id)) = 1
                          /\ \A w \in WarningsAbout(id) :
                                parsed.warnings[w].lines =
                                    {parsed.tasks[m].startLine : m \in TasksWithId(id)}
                     ELSE WarningsAbout(id) = {}
           /\ \A w \in 1..Len(parsed.warnings) :
                 TasksWithId(GenerateTaskId(parsed.warnings[w].path,
                                            parsed.warnings[w].title)) # {}
           /\ Len(parsed.tasks) =
                 Cardinality({i \in 1..Len(TextLines) : IsOpenCheckbox(i)})

\* C19 witness: below a frontmatter, two tasks with the same title under the
\* same heading were both returned and one warning lists their two lines.
C19_Witness ==
    /\ ParsedNow
    /\ FrontLines > 0
    /\ Len(parsed.tasks) = 2
    /\ parsed.tasks[1].id = parsed.tasks[2].id
    /\ parsed.tasks[1].path # <<>>
    /\ Len(parsed.warnings) = 1
    /\ parsed.warnings[1].lines = {parsed.tasks[1].startLine, parsed.tasks[2].startLine}
    /\ Cardinality(parsed.warnings[1].lines) = 2

\* C20: in a parse result every task has startLine <= endLine, and the line
\* ranges startLine..endLine of two distinct tasks have no line in common.
C20_RangesDisjoint ==
    ParsedNow
        => /\ \A n \in 1..Len(parsed.tasks) :
                 /\ FrontLines < parsed.tasks[n].startLine
                 /\ parsed.tasks[n].startLine <= parsed.tasks[n].endLine
                 /\ parsed.tasks[n].endLine <= Len(TextLines)
           /\ \A n, m \in 1..Len(parsed.tasks) :
                 n < m => \/ parsed.tasks[n].endLine < parsed.tasks[m].startLine
                          \/ parsed.tasks[m].endLine < parsed.tasks[n].startLine

\* C20 witness: a task that spans several lines and holds a nested checkbox
\* item was returned together with a second task.
C20_Witness ==
    /\ ParsedNow
    /\ \E n, m \in 1..Len(parsed.tasks) :
          /\ n # m
          /\ parsed.tasks[n].startLine < parsed.tasks[n].endLine
          /\ HasCheckbox(TextLines[parsed.tasks[n].endLine])

\* the calls that hold a snapshot of the text whose write-back is not complete
HoldingSnapshot == {h \in Handlers : inflight[h].pc = "writing"}

ContentNodes == ParseToAst(ContentLines(TextLines))

\* the items of the metadata sublist (the last child list) of the list item
\* at line i of the content
MetadataList(i) ==
    LastList(ContentLines(TextLines), ContentNodes, ChildrenFrom(ContentNodes, i, i + 1),
             <<>>, FALSE)

Later(a, b) == IF a >= b THEN a ELSE b

\* C21: the endLine of every task is the later of the end line of its list
\* item and the end line of its metadata sublist, plus the number of
\* frontmatter lines; without a child list it is the end line of the item.
C21_EndLineIsLaterEnd ==
    ParsedNow
        => \A n \in 1..Len(parsed.tasks) :
              LET i == parsed.tasks[n].startLine - FrontLines
                  list == MetadataList(i)
                  own == ItemEndLine(ContentNodes, i)
              IN  parsed.tasks[n].endLine =
                      FrontLines
                      + (IF list = <<>> THEN own
                         ELSE Later(own, ItemEndLine(ContentNodes, list[Len(list)])))

\* the lines of the input of the last edit
PrevLines == SplitLines(prev)

\* line i of lines is the checkbox line of the task
IsCheckboxLineOf(lines, i, task) ==
    /\ i \in 1..Len(lines)
    /\ HasCheckbox(lines[i])
    /\ lines[i].b = task.title
    /\ (lines[i].a \in {"x", "X"}) <=> task.isChecked

\* C22: in a document that starts with a frontmatter block, startLine and
\* endLine of every task are line numbers of the full text: line startLine
\* is the checkbox line of the task and the lines up to endLine are indented
\* below it; a status update or a delete changes the lines of the task and
\* leaves the frontmatter and every other line as they were.
C22_LinesOfFullText ==
    /\ (ParsedNow /\ HasFrontmatter(TextLines))
          => \A n \in 1..Len(parsed.tasks) :
                /\ IsCheckboxLineOf(TextLines, parsed.tasks[n].startLine, parsed.tasks[n])
                /\ parsed.tasks[n].endLine \in parsed.tasks[n].startLine..Len(TextLines)
                /\ \A j \in (parsed.tasks[n].startLine + 1)..parsed.tasks[n].endLine :
                      TextLines[j].ind > TextLines[parsed.tasks[n].startLine].ind
    /\ (Succeeded /\ HasTarget /\ HasFrontmatter(PrevLines))
          => /\ IsCheckboxLineOf(PrevLines, Target.startLine, Target)
             /\ TaskFrameKept(Target, TRUE)
             /\ SubSeq(TextLines, 1, CloseLine(PrevLines)) = SubSeq(PrevLines, 1, CloseLine(PrevLines))
             /\ IsDelete => TextLines = WithoutTarget
             /\ IsInPlaceUpdate
                   => /\ TargetLineAfter.b = Target.title
                      /\ IsChecked(TargetLineAfter) <=> (edit.newStatus \in edit.doneStatuses)

\* C22 witness: below a frontmatter of five lines and a blank line, in a CRLF
\* document, the second of two tasks was deleted.
C22_Witness ==
    /\ Succeeded /\ IsDelete
    /\ HasFrontmatter(PrevLines) /\ CloseLine(PrevLines) = 5
    /\ DetectEol(prev) = CRLF
    /\ Len(parsed.tasks) = 2 /\ Target.startLine > 7
    /\ Target.endLine > Target.startLine

\* the lines of the input that are headings of the path, as the parser walks
\* them
PrevHeadingLinesOf(path) ==
    {h \in 1..Len(PrevLines) :
        /\ ParseToAst(PrevLines)[h].t = "heading"
        /\ StackPath(HeadingStackAt(PrevLines, ParseToAst(PrevLines), h)) = path}

\* the tasks of the input that lie directly under the path
InputTasksUnder(path) == {n \in 1..Len(parsed.tasks) : parsed.tasks[n].path = path}

Earliest(S) == CHOOSE h \in S : \A g \in S : h <= g

\* the number of lines of the input above the place the claims give for a
\* create at, or a move to, the non-root path
PlaceUnder(path) ==
    IF InputTasksUnder(path) # {}
    THEN parsed.tasks[Latest(InputTasksUnder(path))].endLine
    ELSE Earliest(PrevHeadingLinesOf(path))

\* C23: a successful create at a non-root path P puts the lines of the new
\* task after the end line of the last task directly under P, and without
\* such a task immediately after the heading line of P.
C23_CreateUnderHeading ==
    (Succeeded /\ IsCreate /\ edit.create.path # <<>>)
        => /\ FrameKept(prev, text, Len(PrevLines) + 1, Len(PrevLines),
                        PlaceUnder(edit.create.path), FALSE)
           /\ IsCheckboxLineOf(TextLines, PlaceUnder(edit.create.path) + 1,
                               [title |-> edit.create.title,
                                isChecked |-> edit.create.status \in edit.doneStatuses])

\* the number of tasks of a parse result that carry the id
Carrying(tasks, id) == Cardinality({n \in 1..Len(tasks) : tasks[n].id = id})

\* C27: after a successful create at a non-root path P, or a successful
\* move to a non-root path P, the parse of the returned text has the created
\* or moved task with the path P: one more task carries the id of P and the
\* title than did before.
C27_LandsUnderPath ==
    /\ (Succeeded /\ IsCreate /\ edit.create.path # <<>>)
          => Carrying(Parse(text).tasks, GenerateTaskId(edit.create.path, edit.create.title))
                = Carrying(parsed.tasks, GenerateTaskId(edit.create.path, edit.create.title)) + 1
    /\ (Succeeded /\ IsMove /\ edit.newPath.p # <<>>)
          => Carrying(Parse(text).tasks, GenerateTaskId(edit.newPath.p, Target.title))
                = Carrying(parsed.tasks, GenerateTaskId(edit.newPath.p, Target.title)) + 1

\* the lines the raw-line scan of the serializer takes for headings
ScannedHeadingLines == {i \in 1..Len(TextLines) : MatchesHeading(TextLines[i])}

\* C30: the raw-line heading scan of the serializer finds exactly the heading
\* lines of the parser's walk (no line of a fenced code block or of the
\* frontmatter), builds the parser's path at each of them, and finds every
\* path of the parser's headings at the line of its first heading.
C30_ScanAgreesWithWalk ==
    /\ ScannedHeadingLines = HeadingLines
    /\ FindFirstHeadingLine(TextLines)
          = (IF HeadingLines = {} THEN -1 ELSE Earliest(HeadingLines) - 1)
    /\ \A h \in HeadingLines :
          /\ BuildPathAtLine(TextLines, h - 1) = ChainOf(h)
          /\ InsertScan(TextLines, ChainOf(h), 0, -1, -1).target
                = Earliest({g \in HeadingLines : ChainOf(g) = ChainOf(h)}) - 1

\* C29: every checkbox item with a non-empty title that the walk reaches
\* (outside quotes and code, under no other checkbox item) is exactly one
\* task of the parse result, whatever the frontmatter configures, an empty
\* or blank defaultStatus or defaultDoneStatus included.
C29_NoTaskDropped ==
    ParsedNow
        => \A i \in 1..Len(TextLines) :
              (IsOpenCheckbox(i) /\ TextLines[i].b # "")
                  => Cardinality({n \in 1..Len(parsed.tasks) : parsed.tasks[n].startLine = i}) = 1

\* the lines of the target in the input, and the lines at its place in the
\* returned text
TargetLinesBefore == SubSeq(PrevLines, Target.startLine, Target.endLine)

TargetLinesAfter ==
    SubSeq(TextLines, Target.startLine, Target.endLine + Len(TextLines) - Len(PrevLines))

IsStatusUpdate == Succeeded /\ IsInPlaceUpdate /\ edit.newStatus # ""

IsMetadataUpdate ==
    /\ Succeeded /\ IsInPlaceUpdate
    /\ edit.newMetadata.set /\ edit.newStatus = "" /\ edit.newTitle = ""

\* C25: a status update on a task that has a status line rewrites that line
\* in place, with its indentation, and adds no line; on a task without a
\* status line it adds exactly one line "- status: S" directly below the
\* checkbox line, indented two spaces more than the checkbox line. This
\* holds for LF and for CRLF documents.
C25_StatusLineInPlaceOrChild ==
    IsStatusUpdate
        => LET old == StatusLinesOf(prev, Target)
               first == Earliest(old)
               start == Target.startLine
           IN  IF old # {}
               THEN /\ Len(TextLines) = Len(PrevLines)
                    /\ TextLines[first] = MetaLine(PrevLines[first].ind, "status", edit.newStatus)
                    /\ \A j \in 1..Len(PrevLines) :
                          j \notin {first, start} => TextLines[j] = PrevLines[j]
               ELSE /\ Len(TextLines) = Len(PrevLines) + 1
                    /\ TextLines[start + 1] =
                          MetaLine(PrevLines[start].ind + 2, "status", edit.newStatus)
                    /\ \A j \in 1..Len(PrevLines) :
                          /\ j < start => TextLines[j] = PrevLines[j]
                          /\ j > start => TextLines[j + 1] = PrevLines[j]

\* C26: after a successful status update to S, parsing the returned text
\* gives the task at the target's line the status S.
C26_ReparsedStatusIsNew ==
    IsStatusUpdate
        => \E n \in 1..Len(Parse(text).tasks) :
              /\ Parse(text).tasks[n].startLine = Target.startLine
              /\ Parse(text).tasks[n].status = edit.newStatus

\* C28: a status update leaves the indentation, the bullet and the title of
\* the checkbox line as they were; only the checkbox marker may differ.
C28_OnlyMarkerChanges ==
    (IsStatusUpdate /\ edit.newTitle = "")
        => /\ TargetLineAfter.k = TargetLineBefore.k
           /\ TargetLineAfter.ind = TargetLineBefore.ind
           /\ TargetLineAfter.b = TargetLineBefore.b

\* C24: a metadata update removes the lines of the old keys that the new
\* metadata lacks or gives an empty value, rewrites in place the lines of
\* the keys it gives a value, and puts the line of a key that had no line
\* below the status line, or first below the checkbox line when there is no
\* status line, as a child of the task; the checkbox line and the status
\* lines stay as they were.
C24_MetadataReplaced ==
    IsMetadataUpdate
        => LET M == edit.newMetadata.m
               before == TargetLinesBefore
               after == TargetLinesAfter
               Had(key) == \E n \in 2..Len(before) : before[n].k = "meta" /\ before[n].a = key
               IsKeyLine(line) == line.k = "meta" /\ line.a # "status"
               NotGone(line) ==
                   ~(/\ IsKeyLine(line)
                     /\ MetaHas(Target.metadata, line.a)
                     /\ (~MetaHas(M, line.a) \/ MetaGet(M, line.a) = ""))
               NotInserted(line) == ~(IsKeyLine(line) /\ ~Had(line.a))
               kept == SelectSeq(before, NotGone)
               rest == SelectSeq(after, NotInserted)
               anchors == IF \E n \in 2..Len(before) : MatchesStatusLine(before[n])
                          THEN {n \in 2..Len(after) : MatchesStatusLine(after[n])}
                          ELSE {1}
           IN  /\ after[1] = before[1]
               /\ Len(rest) = Len(kept)
               /\ \A n \in 1..Len(kept) :
                     rest[n] = IF IsKeyLine(kept[n]) /\ MetaHas(M, kept[n].a)
                               THEN MetaLine(kept[n].ind, kept[n].a, MetaGet(M, kept[n].a))
                               ELSE kept[n]
               /\ \A n \in 1..Len(M) :
                     (M[n].key # "status" /\ M[n].val # "" /\ ~Had(M[n].key))
                         => \E j \in 2..Len(after), at \in anchors :
                               /\ at < j
                               /\ after[j].k = "meta"
                               /\ after[j].a = M[n].key /\ after[j].b = M[n].val
                               /\ after[j].ind > before[1].ind
                               /\ \A m \in (at + 1)..(j - 1) : ~NotInserted(after[m])

====
